---- MODULE Spec2Model ----
(***************************************************************************)
(* A model of the parameter tree (spiking_visnet/tree.py), of the layer    *)
(* objects (denest/network/layers.py, nets/network/layers.py) and of the   *)
(* projections and the network build (denest/network/projections.py,       *)
(* spiking_visnet/nestify/build.py, spiking_visnet/network/network.py) of  *)
(* NETS.                                                                   *)
(*                                                                         *)
(* A tree is a function from node paths (sequences of child names, the     *)
(* root being <<>>) to the node's local data (a function from the keys the *)
(* node defines to their values).  The parent of node p is Front(p); the   *)
(* children of p are the paths Append(p, name) of the tree.                *)
(***************************************************************************)
EXTENDS Integers, Sequences, FiniteSets, TLC

VARIABLES
    tree,    \* the Params tree
    tres,    \* the last call on the tree and its outcome
    layer,   \* the attributes of the Layer object
    engine,  \* the simulation kernel: the nodes it holds
    lres,    \* the last call on the layer and its outcome
    history, \* how many changes of each sort were asked of the layer
    proj,    \* the projection object, if one was built
    conns,   \* the labelled connections that the kernel holds
    pres,    \* the last call on the projection and its outcome
    net,     \* the Network object and the creations it asked of the kernel
    input,   \* what an InputLayer adds to the attributes of a layer
    topo,    \* a connection model and the connections built from it
    nchg,    \* the change flag of the Network and its last change call
    kmodels,  \* the models of the kernel and the last Model call
    arr,     \* the last input array given to an input layer
    rec,     \* a projection, its weight recorder and the models of the kernel
    sim      \* the sessions of a Simulation and the time of the kernel

treeVars == <<tree, tres>>
layerVars == <<layer, engine, lres, history>>
projVars == <<proj, conns, pres>>
buildVars == <<proj, conns, pres, net, input, topo>>
auxVars == <<nchg, kmodels, arr, rec, sim>>
vars ==
    <<tree, tres, layer, engine, lres, history, proj, conns, pres, net, input,
      topo, nchg, kmodels, arr, rec, sim>>

----------------------------------------------------------------------------
(* Bounds and input domains of the tree model *)

\* Largest number of nodes of a tree built by the constructor.
MaxNodes == 3
\* Largest number of nodes of each tree given to merge.
MergeNodes == 2

\* Child names.  "k" is also a data key: children and data are two
\* namespaces of a node, and Params.__setitem__ confuses them.
ChildNames == {"k", "c"}
Keys == {"k"}
Values == {"value", "new_value"}
\* Stands for "no value": the value slot of a raise, an unused argument.
NoValue == "none"

Front(s) == SubSeq(s, 1, Len(s) - 1)
Last(s) == s[Len(s)]

RECURSIVE SeqsUpTo(_, _)
SeqsUpTo(S, n) ==
    IF n = 0 THEN {<<>>}
    ELSE LET shorter == SeqsUpTo(S, n - 1)
         IN  shorter \cup {Append(s, x) : s \in {q \in shorter : Len(q) = n - 1}, x \in S}

EmptyMap == [k \in {} |-> NoValue]
LocalMaps == UNION {[D -> Values] : D \in SUBSET Keys}

IsTreeShape(S) ==
    /\ <<>> \in S
    /\ \A p \in S : p # <<>> => Front(p) \in S

TreesOf(n) ==
    LET paths == SeqsUpTo(ChildNames, n - 1)
        shapes == {S \in SUBSET paths : IsTreeShape(S) /\ Cardinality(S) <= n}
    IN  UNION {[S -> LocalMaps] : S \in shapes}

\* The paths a caller may name, existing or not.
PathsOf(n) == SeqsUpTo(ChildNames, n)

----------------------------------------------------------------------------
(* Tree, Scope, Params *)

Ok(v) == [kind |-> "ok", value |-> v]
Raise(e) == [kind |-> e, value |-> NoValue]
OkNode(p) == [kind |-> "ok", node |-> p]
RaiseNode(e) == [kind |-> e, node |-> <<>>]

\* Tree.__init__ with no mapping: a node without data or children.
EmptyTree == [p \in {<<>>} |-> EmptyMap]

\* self.c[name], KeyError turned into ValueError (tree.py:79-82).
ChildOfMutant(t, self, name) ==
    IF Append(self, name) \in DOMAIN t THEN OkNode(Append(self, name))
    ELSE RaiseNode("KeyError")
ChildOf(t, self, name) ==
    IF Append(self, name) \in DOMAIN t THEN OkNode(Append(self, name))
    ELSE RaiseNode("ValueError")

\* Tree.get_node called with a tuple `name`.  The empty tuple is not
\* "isinstance(name, tuple) and name", so it is looked up as a child name
\* and fails.
RECURSIVE get_node(_, _, _)
get_node(t, self, name) ==
    IF name = <<>> THEN RaiseNode("ValueError")
    ELSE IF Tail(name) = <<>> THEN ChildOf(t, self, name[1])
    ELSE LET first == ChildOf(t, self, name[1])
         IN  IF first.kind # "ok" THEN first
             ELSE get_node(t, first.node, Tail(name))

\* UserDict.__getitem__ on a Scope node with a plain key: the node's own
\* data, else Scope.__missing__, which asks the parent; the root's parent is
\* an empty dict, whose lookup raises KeyError.
RECURSIVE ScopeGetFarthest(_, _, _)
ScopeGetFarthest(t, self, key) ==
    LET up == IF self = <<>> THEN Raise("KeyError")
              ELSE ScopeGetFarthest(t, Front(self), key)
    IN  IF up.kind = "ok" THEN up
        ELSE IF key \in DOMAIN t[self] THEN Ok(t[self][key])
        ELSE Raise("KeyError")
RECURSIVE ScopeGet(_, _, _)
ScopeGet(t, self, key) ==
    IF key \in DOMAIN t[self] THEN Ok(t[self][key])
    ELSE IF self = <<>> THEN Raise("KeyError")
    ELSE ScopeGet(t, Front(self), key)

\* Params.__getitem__ with a tuple key (c1, ..., cn, K).
Params_getitem(t, key) ==
    LET dest == get_node(t, <<>>, Front(key))
    IN  IF dest.kind # "ok" THEN Raise(dest.kind)
        ELSE ScopeGet(t, dest.node, Last(key))

\* Params.__getitem__ with a plain key on the root.
Params_getitem_key(t, key) == ScopeGet(t, <<>>, key)

\* Params.__setitem__ with a plain key on node `self`: UserDict.__setitem__.
SetLocal(t, self, key, value) ==
    [t EXCEPT ![self] = [k \in DOMAIN t[self] \cup {key} |->
                            IF k = key THEN value ELSE t[self][k]]]

\* Params.__setitem__ with a tuple key: self[key[:-1]][key[-1]] = value.
\* self[key[:-1]] is Params.__getitem__ with the tuple key[:-1], that is a
\* data lookup of c_n in the node c1..c_(n-1); a value found is a string,
\* which supports no item assignment.  Returns the outcome and the tree.
Params_setitem(t, key, value) ==
    LET inner == Front(key)
        got == IF inner = <<>> THEN Raise("ValueError")
               ELSE Params_getitem(t, inner)
    IN  IF got.kind # "ok" THEN [out |-> got, tree |-> t]
        ELSE [out |-> Raise("TypeError"), tree |-> t]

\* Scope._all_data keys: the keys visible from a node (Scope.__iter__).
VisibleKeys(t, self) ==
    {k \in Keys : ScopeGet(t, self, k).kind = "ok"}

\* ChainMap(*trees)[key]: the first tree whose node resolves the key.
RECURSIVE ChainGetLast(_, _)
ChainGetLast(views, key) ==
    LET n == Len(views)
        r == ScopeGet(views[n].t, views[n].at, key)
    IN  IF r.kind = "ok" \/ n = 1 THEN r
        ELSE ChainGetLast(Front(views), key)
RECURSIVE ChainGet(_, _)
ChainGet(views, key) ==
    LET r == ScopeGet(views[1].t, views[1].at, key)
    IN  IF r.kind = "ok" \/ Len(views) = 1 THEN r
        ELSE ChainGet(Tail(views), key)

ChildNamesOf(t, self) == {n \in ChildNames : Append(self, n) \in DOMAIN t}

\* Tree.merge(cls, *trees) for cls = Params.  A view is a node of a tree;
\* tree.c.get(name, cls()) is the child's view, or a fresh empty tree.
RECURSIVE MergeViews(_)
MergeViews(views) ==
    LET idx == 1 .. Len(views)
        keys == UNION {VisibleKeys(views[i].t, views[i].at) : i \in idx}
        data == [k \in keys |-> ChainGet(views, k).value]
        all_names == UNION {ChildNamesOf(views[i].t, views[i].at) : i \in idx}
        childView(i, name) ==
            IF name \in ChildNamesOf(views[i].t, views[i].at)
            THEN [t |-> views[i].t, at |-> Append(views[i].at, name)]
            ELSE [t |-> EmptyTree, at |-> <<>>]
        kids == [name \in all_names |->
                    MergeViews([i \in idx |-> childView(i, name)])]
        paths == {<<>>} \cup
                 UNION {{<<name>> \o q : q \in DOMAIN kids[name]} : name \in all_names}
    IN  [p \in paths |-> IF p = <<>> THEN data ELSE kids[p[1]][Tail(p)]]

Tree_merge(trees) ==
    MergeViews([i \in 1 .. Len(trees) |-> [t |-> trees[i], at |-> <<>>]])

----------------------------------------------------------------------------
(* Bounds and input domains of the layer model *)

\* Largest number of rows and of columns of a layer.
MaxRows == 2
MaxCols == 2
\* Largest length of a list given to get_gids_subset.
MaxLen == 4
\* Proportions are the multiples of 1/PropDen; a proportion is written as
\* its numerator.  With PropDen a power of two these are exact as floats and
\* int(len * proportion) is the exact quotient.
PropDen == 2
\* Largest value of a node's state parameter.
MaxStatus == 2

\* Population names are character sequences, so that "is a substring of"
\* can be computed.  E is a substring of E2.
E == <<"e">>
E2 == <<"e", "2">>
I == <<"i">>
PopNames == {E, E2, I}

\* params['populations'], an insertion-ordered dict {<name>: <number>}, as
\* the sequence of its items.
PopConfigs ==
    { << <<E, 1>> >>,
      << <<E, 1>>, <<I, 2>> >>,
      << <<E, 1>>, <<E2, 1>> >>,
      << <<E2, 2>>, <<E, 1>> >> }

\* An argument left at its default None.
None == <<>>

Put(f, k, v) == [x \in DOMAIN f \cup {k} |-> IF x = k THEN v ELSE f[x]]
EmptyFun == [x \in {} |-> None]
Range(s) == {s[i] : i \in DOMAIN s}
Reverse(s) == [i \in 1 .. Len(s) |-> s[Len(s) + 1 - i]]

\* sorted(): the increasing sequence of a set of integers.
RECURSIVE SortedSeq(_)
SortedSeq(S) ==
    IF S = {} THEN <<>>
    ELSE LET least == CHOOSE x \in S : \A y \in S : x <= y
         IN  <<least>> \o SortedSeq(S \ {least})

\* `sub in s` for Python strings.
IsSubstring(sub, s) ==
    \E i \in 1 .. Len(s) - Len(sub) + 1 :
        SubSeq(s, i, i + Len(sub) - 1) = sub

----------------------------------------------------------------------------
(* The simulation kernel, as far as the layer code calls it.  A kernel    *)
(* holds at most one layer here: the layer node and its element nodes.    *)

NoEngine ==
    [layer_gid |-> 0, rows |-> 0, columns |-> 0, nodes |-> EmptyFun,
     status |-> EmptyFun, spike_times |-> EmptyFun]

\* The models of `elements` = [name1, n1, name2, n2, ...], each name
\* repeated as many times as its number: one entry per node of a location.
RECURSIVE ElementModels(_)
ElementModels(elements) ==
    IF elements = <<>> THEN <<>>
    ELSE [i \in 1 .. elements[2] |-> elements[1]]
         \o ElementModels(SubSeq(elements, 3, Len(elements)))

\* tp.CreateLayer(nest_params): the layer node gets the first GID; then, for
\* every entry of ElementModels in turn, one node per grid position, taken
\* column by column.  A node records its model and its (column, row).
EngineCreateLayer(nest_params) ==
    LET rows == nest_params.rows
        cols == nest_params.columns
        models == ElementModels(nest_params.elements)
        cells == rows * cols
        count == Len(models) * cells
    IN  [layer_gid |-> 1, rows |-> rows, columns |-> cols,
         nodes |-> [g \in 2 .. count + 1 |->
                       [model |-> models[((g - 2) \div cells) + 1],
                        column |-> ((g - 2) % cells) \div rows,
                        row |-> ((g - 2) % cells) % rows]],
         status |-> [g \in 2 .. count + 1 |-> 1],
         spike_times |-> [g \in 2 .. count + 1 |-> 0]]

\* nest.GetNodes(gid)[0]: the element nodes of the layer, in GID order.
EngineGetNodes(eng) == SortedSeq(DOMAIN eng.nodes)

\* tp.GetElement(gid, (column, row)): the nodes at a grid position, in GID
\* order.  The position comes first by column, then by row.
EngineGetElement(eng, position) ==
    SortedSeq({g \in DOMAIN eng.nodes :
                  /\ eng.nodes[g].column = position[1]
                  /\ eng.nodes[g].row = position[2]})

\* nest.GetStatus((gid,), 'model')[0]
EngineModel(eng, gid) == eng.nodes[gid].model

----------------------------------------------------------------------------
(* Layer (denest/network/layers.py and nets/network/layers.py)            *)

Impls == {"denest", "nets"}

\* flatten([population, number] for population, number in populations.items())
RECURSIVE build_elements_names(_)
build_elements_names(populations) ==
    IF populations = <<>> THEN <<>>
    ELSE <<populations[1][1], 1>> \o build_elements_names(Tail(populations))
RECURSIVE build_elements(_)
build_elements(populations) ==
    IF populations = <<>> THEN <<>>
    ELSE <<populations[1][1], populations[1][2]>> \o build_elements(Tail(populations))

\* Layer.__init__: the attributes of a layer that is not created yet.
NewLayer(impl, shape, populations) ==
    [impl |-> impl,
     shape |-> shape,
     populations |-> populations,
     nest_params |-> [rows |-> shape[1], columns |-> shape[2],
                      elements |-> build_elements(populations)],
     created |-> FALSE,
     gid |-> 0,
     gids |-> <<>>,
     locations |-> EmptyFun,
     population_locations |-> EmptyFun,
     gid_populations |-> EmptyFun,
     elements |-> EmptyFun,
     prob_changed |-> FALSE]

\* Layer.population_names(): list(params['populations'].keys())
population_names(l) == {l.populations[i][1] : i \in DOMAIN l.populations}

\* self.populations[name]: the number of units declared for a population.
PopulationCount(l, name) ==
    LET i == CHOOSE j \in DOMAIN l.populations : l.populations[j][1] = name
    IN  l.populations[i][2]

\* np.ndenumerate(np.empty(shape)) and itertools.product(range(rows),
\* range(cols)): the (row, col) indices, row by row.
GridIndices(shape) ==
    [i \in 1 .. shape[1] * shape[2] |->
        <<(i - 1) \div shape[2], (i - 1) % shape[2]>>]

\* for k, gid in enumerate(loc_gids): record the location and the
\* population location of gid (denest layers.py:244-246).
RECURSIVE RecordGids(_, _, _, _)
RecordGids(l, loc_gids, index, k) ==
    IF loc_gids = <<>> THEN l
    ELSE RecordGids(
            [l EXCEPT
                !.locations = Put(@, Head(loc_gids), index),
                !.population_locations = Put(@, Head(loc_gids), Append(index, k))],
            Tail(loc_gids), index, k + 1)

\* The loop over the grid of denest Layer.create (layers.py:241-246); rows
\* and columns are switched in the GetElement query.
RECURSIVE DenestRecordCells(_, _, _)
DenestRecordCells(l, eng, indices) ==
    IF indices = <<>> THEN l
    ELSE DenestRecordCells(
            RecordGids(l, EngineGetElement(eng, Reverse(Head(indices))),
                       Head(indices), 0),
            eng, Tail(indices))

\* for gid, population in elements (nets layers.py:278-280).
RECURSIVE RecordElements(_, _, _)
RecordElements(l, elements, index) ==
    IF elements = <<>> THEN l
    ELSE RecordElements(
            [l EXCEPT
                !.locations = Put(@, Head(elements)[1], index),
                !.gid_populations = Put(@, Head(elements)[1], Head(elements)[2])],
            Tail(elements), index)

\* The loop over the grid of nets Layer.create (layers.py:269-280).
RECURSIVE NetsRecordCells(_, _, _)
NetsRecordCells(l, eng, indices) ==
    IF indices = <<>> THEN l
    ELSE LET index == Head(indices)
             gids == EngineGetElement(eng, Reverse(index))
             elements == [i \in DOMAIN gids |-> <<gids[i], EngineModel(eng, gids[i])>>]
         IN  NetsRecordCells(
                RecordElements([l EXCEPT !.elements = Put(@, index, elements)],
                               elements, index),
                eng, Tail(indices))

\* The body of Layer.create.  Returns the outcome, the layer and the kernel.
LayerCreateBody(l) ==
    LET eng == EngineCreateLayer(l.nest_params)
        l1 == [l EXCEPT !.gid = eng.layer_gid]
    IN  IF l.impl = "denest"
        THEN LET l2 == [l1 EXCEPT !.gids = EngineGetNodes(eng)]
                 l3 == DenestRecordCells(l2, eng, GridIndices(l.shape))
             IN  [kind |-> IF Range(l3.gids) = DOMAIN l3.locations
                           THEN "ok" ELSE "AssertionError",
                  layer |-> l3, engine |-> eng]
        ELSE LET l2 == NetsRecordCells(l1, eng, GridIndices(l.shape))
                 l3 == [l2 EXCEPT !.gids = SortedSeq(DOMAIN l2.locations)]
             IN  [kind |-> "ok", layer |-> l3, engine |-> eng]

\* Layer.create under @if_not_created: a created layer is left alone; the
\* flag is set before the body runs and reset when the body raises.
LayerCreateCall(l, eng) ==
    IF l.created THEN [kind |-> "skipped", layer |-> l, engine |-> eng]
    ELSE LET r == LayerCreateBody([l EXCEPT !.created = TRUE])
         IN  IF r.kind = "ok" THEN r
             ELSE [r EXCEPT !.layer.created = FALSE]

\* The population test of denest Layer.gids (layers.py:257).
DenestPopFilterSubstring(eng, gid, population) ==
    population = None \/ IsSubstring(population, EngineModel(eng, gid))
DenestPopFilter(eng, gid, population) ==
    population = None \/ EngineModel(eng, gid) = population

\* The location test of Layer.gids (denest layers.py:258; nets
\* layers.py:294-296, whose "in location" finds no pair among two numbers).
LocFilterRowOnly(l, gid, location) ==
    location = None \/ l.locations[gid][1] = location[1]
LocFilter(l, gid, location) ==
    location = None \/ l.locations[gid] = location

\* The population-location test of denest Layer.gids (layers.py:259-260).
PopLocFilter(l, gid, population_location) ==
    population_location = None
    \/ l.population_locations[gid] = population_location

\* The population test of nets Layer.gids (layers.py:290-291).
NetsPopFilter(l, gid, population) ==
    population = None \/ IsSubstring(population, l.gid_populations[gid])

\* Layer.gids under @if_created.  Returns the outcome and the list.
LayerGidsCall(l, eng, population, location, population_location) ==
    IF ~l.created THEN [kind |-> "NotCreatedError", gids |-> <<>>]
    ELSE IF l.impl = "denest"
    THEN [kind |-> "ok",
          gids |-> SelectSeq(l.gids,
                      LAMBDA gid : /\ DenestPopFilter(eng, gid, population)
                                   /\ LocFilter(l, gid, location)
                                   /\ PopLocFilter(l, gid, population_location))]
    ELSE IF population # None /\ population \notin population_names(l)
    THEN [kind |-> "AssertionError", gids |-> <<>>]
    ELSE [kind |-> "ok",
          gids |-> SortedSeq(Range(
                      SelectSeq(SelectSeq(l.gids,
                                    LAMBDA gid : NetsPopFilter(l, gid, population)),
                                LAMBDA gid : LocFilter(l, gid, location))))]

\* Layer.population_shapes[pop_name]: shape + (populations[pop_name],)
population_shape(l, name) == Append(l.shape, PopulationCount(l, name))

----------------------------------------------------------------------------
(* AbstractLayer.change_unit_states and its helpers *)

\* int(x) for x = a / b with b > 0: truncation towards zero.
Trunc(a, b) == IF a >= 0 THEN a \div b ELSE -((-a) \div b)

\* random.sample(range(n), k): the possible results, sequences of k distinct
\* indices in any order.  k > n and k < 0 have no result (ValueError).
RandomSamples(n, k) ==
    IF k < 0 \/ k > n THEN {}
    ELSE {s \in [1 .. k -> 0 .. n - 1] :
             \A i, j \in 1 .. k : i # j => s[i] # s[j]}

\* sorted() of a sequence of integers.
RECURSIVE SortedList(_)
SortedList(s) ==
    IF s = <<>> THEN <<>>
    ELSE LET least == CHOOSE i \in DOMAIN s : \A j \in DOMAIN s : s[i] <= s[j]
         IN  <<s[least]>> \o
             SortedList(SubSeq(s, 1, least - 1) \o SubSeq(s, least + 1, Len(s)))

\* get_gids_subset(gids_list, proportion), given the sample that
\* random.sample drew.
get_gids_subset_unsorted(gids_list, sample) ==
    [i \in 1 .. Len(sample) |-> gids_list[sample[i] + 1]]
get_gids_subset(gids_list, sample) ==
    LET picked == SortedList(sample)
    IN  [i \in 1 .. Len(picked) |-> gids_list[picked[i] + 1]]

\* The size of the sample: int(len(gids_list) * proportion).
SampleSize(gids_list, num) == Trunc(Len(gids_list) * num, PropDen)

ChangeTypes == {"constant", "multiplicative"}

\* The first checks of denest change_unit_states (layers.py:122-127); the
\* nets layer has none.
ValidationErrorTypeOnly(l, num, change_type) ==
    IF l.impl # "denest" THEN "ok"
    ELSE IF change_type \notin ChangeTypes THEN "ParameterError"
    ELSE "ok"
ValidationError(l, num, change_type) ==
    IF l.impl # "denest" THEN "ok"
    ELSE IF change_type \notin ChangeTypes THEN "ParameterError"
    ELSE IF num > PropDen \/ num < 0 THEN "ParameterError"
    ELSE "ok"

\* "self._prob_changed and proportion != 1.0"
ProbGuardNever(l, num) == FALSE
ProbGuard(l, num) == l.prob_changed /\ num # PropDen

\* The number of nest.GetStatus calls that self.gids(population=...) makes:
\* the denest layer asks the kernel for the model of every element when a
\* population is given.
GidsReads(l, population) ==
    IF l.created /\ l.impl = "denest" /\ population # None
    THEN Len(l.gids) ELSE 0

\* apply_unit_changes: the kernel afterwards and the numbers of GetStatus
\* and SetStatus calls made.  changes_dict has the one key "V_m".
apply_unit_changes(eng, gids_to_change, changes_dict, change_type) ==
    IF change_type = "constant"
    THEN [kind |-> "ok",
          engine |-> [eng EXCEPT !.status =
                        [g \in DOMAIN @ |->
                            IF g \in Range(gids_to_change)
                            THEN changes_dict["V_m"] ELSE @[g]]],
          reads |-> 0, writes |-> 1]
    ELSE IF change_type = "multiplicative"
    THEN [kind |-> "ok",
          engine |-> [eng EXCEPT !.status =
                        [g \in DOMAIN @ |->
                            IF g \in Range(gids_to_change)
                            THEN @[g] * changes_dict["V_m"] ELSE @[g]]],
          reads |-> Len(gids_to_change), writes |-> Len(gids_to_change)]
    ELSE [kind |-> "AssertionError", engine |-> eng, reads |-> 0, writes |-> 0]

\* change_unit_states up to the draw of the sample: the outcome so far, the
\* candidates, and the size of the sample to draw.
ChangeBegin(l, eng, changes_dict, population, num, change_type) ==
    LET none == [kind |-> "ok", all_gids |-> <<>>, size |-> 0, reads |-> 0]
        all == LayerGidsCall(l, eng, population, None, None)
    IN  IF ValidationError(l, num, change_type) # "ok"
        THEN [none EXCEPT !.kind = ValidationError(l, num, change_type)]
        ELSE IF DOMAIN changes_dict = {} THEN [none EXCEPT !.kind = "return"]
        ELSE IF ProbGuard(l, num) THEN [none EXCEPT !.kind = "Exception"]
        ELSE IF all.kind # "ok" THEN [none EXCEPT !.kind = all.kind]
        ELSE IF RandomSamples(Len(all.gids), SampleSize(all.gids, num)) = {}
        THEN [kind |-> "ValueError", all_gids |-> all.gids, size |-> 0,
              reads |-> GidsReads(l, population)]
        ELSE [kind |-> "ok", all_gids |-> all.gids,
              size |-> SampleSize(all.gids, num),
              reads |-> GidsReads(l, population)]

\* The rest of change_unit_states, given the sample: apply the changes and
\* set the flag (layers.py:138-148).
ChangeEnd(l, eng, begin, sample, changes_dict, change_type) ==
    LET gids_to_change == get_gids_subset(begin.all_gids, sample)
        applied == apply_unit_changes(eng, gids_to_change, changes_dict,
                                      change_type)
    IN  [kind |-> applied.kind,
         layer |-> IF applied.kind = "ok"
                   THEN [l EXCEPT !.prob_changed = TRUE] ELSE l,
         engine |-> applied.engine,
         reads |-> begin.reads + applied.reads,
         writes |-> applied.writes]

----------------------------------------------------------------------------
(* Projections (denest/network/projections.py)                            *)

\* Largest number of labelled connections that the kernel holds before the
\* projection is created.
MaxConns == 2

\* InputLayer.PARROT_MODEL and the stimulator population of the input layer.
ParrotModel == <<"parrot_neuron">>
Stimulator == <<"spike_generator">>

\* The two created layers that projections connect: an InputLayer and a
\* Layer, each with its class name, its GID and the GIDs of its populations.
ProjLayers ==
    [in |-> [kind |-> "InputLayer", gid |-> 1,
             gids |-> (Stimulator :> <<2>> @@ ParrotModel :> <<3>>)],
     a |-> [kind |-> "Layer", gid |-> 4,
            gids |-> (E :> <<5>> @@ I :> <<6>>)]]
ProjLayerNames == {"in", "a"}

\* The population arguments given to a projection.
ProjPopulations == {None, ParrotModel, E, I}

\* The projection models: the type and, for a multisynapse model, the
\* query_synapse_label parameter.
ProjModels ==
    {[type |-> "topological", query_synapse_label |-> 0],
     [type |-> "multisynapse", query_synapse_label |-> 1],
     [type |-> "multisynapse", query_synapse_label |-> 2]}

\* The labelled connections that the kernel may hold: source, target and
\* synapse label.
ConnUniverse ==
    {[source |-> s, target |-> t, synapse_label |-> l] :
        s \in {3, 5}, t \in {5, 6}, l \in {1, 2}}

\* layer.gids(population=population) of a created denest layer.
ProjLayerGids(name, population) ==
    LET l == ProjLayers[name]
    IN  IF population = None
        THEN UNION {Range(l.gids[p]) : p \in DOMAIN l.gids}
        ELSE IF population \in DOMAIN l.gids THEN Range(l.gids[population])
        ELSE {}

NoProjection ==
    [built |-> FALSE, model |-> [type |-> "none", query_synapse_label |-> 0],
     source |-> "none", source_population |-> None,
     target |-> "none", target_population |-> None,
     sources |-> None, targets |-> None, created |-> FALSE]

\* No call was made on the projection yet.
NoProjectionCall ==
    [op |-> "none", kind |-> "none", model |-> NoProjection.model,
     source |-> "none", source_population |-> None,
     target |-> "none", target_population |-> None]

\* BaseProjection._validate_projection: the error raised, if any.
validate_projection_target_only(source, source_population, target) ==
    IF ProjLayers[target].kind = "InputLayer" THEN "ValueError" ELSE "ok"
validate_projection(source, source_population, target) ==
    IF ProjLayers[target].kind = "InputLayer" THEN "ValueError"
    ELSE IF /\ ProjLayers[source].kind = "InputLayer"
            /\ source_population # ParrotModel
    THEN "ValueError"
    ELSE "ok"

\* TopoProjection.__init__ and MultiSynapseProjection.__init__ after
\* BaseProjection.__init__: the outcome and the object, if one is made.
NewProjection(model, source, source_population, target, target_population) ==
    LET kind == validate_projection(source, source_population, target)
    IN  IF kind # "ok" THEN [kind |-> kind, proj |-> NoProjection]
        ELSE [kind |-> "ok",
              proj |-> [built |-> TRUE, model |-> model,
                        source |-> source,
                        source_population |-> source_population,
                        target |-> target,
                        target_population |-> target_population,
                        sources |-> IF model.type = "topological"
                                    THEN source_population ELSE None,
                        targets |-> IF model.type = "topological"
                                    THEN target_population ELSE None,
                        created |-> FALSE]]

\* nest.GetConnections(synapse_label=label)
EngineGetConnections(held, label) == {c \in held : c.synapse_label = label}

\* The connections that MultiSynapseProjection.create replicates
\* (projections.py:301-309).
MultiSynapseConnsSourceOnly(p, held) ==
    {c \in EngineGetConnections(held, p.model.query_synapse_label) :
        c.source \in ProjLayerGids(p.source, p.source_population)}
MultiSynapseConns(p, held) ==
    {c \in EngineGetConnections(held, p.model.query_synapse_label) :
        /\ c.source \in ProjLayerGids(p.source, p.source_population)
        /\ c.target \in ProjLayerGids(p.target, p.target_population)}

\* The body of create: the outcome and the kernel calls made.
\* TopoProjection.create calls tp.ConnectLayers through source._connect;
\* MultiSynapseProjection.create calls nest.Connect with the one_to_one
\* rule over the (source, target) pairs of the connections found.
ProjectionCreateBody(p, held) ==
    IF p.model.type = "topological"
    THEN [kind |-> "ok",
          calls |-> << [call |-> "ConnectLayers",
                        source |-> ProjLayers[p.source].gid,
                        target |-> ProjLayers[p.target].gid,
                        sources |-> p.sources, targets |-> p.targets,
                        pairs |-> {}] >>]
    ELSE IF MultiSynapseConns(p, held) = {}
    THEN [kind |-> "ParameterError", calls |-> <<>>]
    ELSE [kind |-> "ok",
          calls |-> << [call |-> "Connect",
                        source |-> 0, target |-> 0,
                        sources |-> None, targets |-> None,
                        pairs |-> {<<c.source, c.target>> :
                                      c \in MultiSynapseConns(p, held)}] >>]

\* create under @if_not_created.
ProjectionCreateCall(p, held) ==
    IF p.created THEN [kind |-> "skipped", proj |-> p, calls |-> <<>>]
    ELSE LET r == ProjectionCreateBody([p EXCEPT !.created = TRUE], held)
         IN  [kind |-> r.kind,
              proj |-> [p EXCEPT !.created = (r.kind = "ok")],
              calls |-> r.calls]

----------------------------------------------------------------------------
(* Network (spiking_visnet/network/network.py)                            *)

\* Largest number of objects of each sort that a network holds.
MaxPerStage == 1

\* The sorts of objects of a network, in the order of Network.create.
StageNames ==
    <<"neuron_models", "synapse_models", "recorder_models", "layers",
      "connections", "populations">>
Stages == Range(StageNames)

\* Network.__init__ with counts[stage] objects of each sort.  Every
\* connection and every population looks its layer up in self.layers
\* (build_connection, build_population): KeyError, and no network, when
\* there is none.  Otherwise nothing is created yet; log lists the
\* creations asked of the kernel, one for each object whose create() body
\* ran.
NewNetwork(counts) ==
    IF counts["layers"] = 0
       /\ (counts["connections"] > 0 \/ counts["populations"] > 0)
    THEN [kind |-> "KeyError"]
    ELSE [kind |-> "ok", counts |-> counts, created |-> FALSE,
          objects_created |-> {}, dry_run |-> FALSE, calls |-> 0,
          log |-> <<>>]
NoNetwork == NewNetwork([s \in Stages |-> 0])

\* The sorts of objects that Network.create creates, in order
\* (network.py:136-151).
create_stages_layers_first(dry_run) ==
    IF dry_run
    THEN <<"layers", "neuron_models", "synapse_models", "recorder_models",
           "connections">>
    ELSE <<"layers", "neuron_models", "synapse_models", "recorder_models",
           "connections", "populations">>
create_stages(dry_run) ==
    IF dry_run THEN SubSeq(StageNames, 1, 5) ELSE StageNames

\* obj.create() under @if_not_created for the object `index` of a sort: the
\* body runs once.
ObjectCreate(n, stage, index) ==
    IF <<stage, index>> \in n.objects_created THEN n
    ELSE [n EXCEPT !.objects_created = @ \cup {<<stage, index>>},
                   !.log = Append(@, [stage |-> stage, index |-> index])]

\* self._create_all(objects): create() on each object of a sort in turn.
RECURSIVE create_all(_, _, _)
create_all(n, stage, index) ==
    IF index > n.counts[stage] THEN n
    ELSE create_all(ObjectCreate(n, stage, index), stage, index + 1)

\* The body of Network.create: the sorts in turn.
RECURSIVE NetworkCreateBody(_, _)
NetworkCreateBody(n, stages) ==
    IF stages = <<>> THEN n
    ELSE NetworkCreateBody(create_all(n, Head(stages), 1), Tail(stages))

\* Network.create(dry_run) under @if_not_created.
NetworkCreateCall(n, dry_run) ==
    IF n.created THEN n
    ELSE NetworkCreateBody([n EXCEPT !.created = TRUE], create_stages(dry_run))

----------------------------------------------------------------------------
(* Network.create when the creation of an object fails                      *)

MaxRetries == 3

\* The numbers of objects of each sort in the networks that are created.
RetryCounts ==
    {[s \in Stages |-> 1],
     [s \in Stages |-> IF s \in {"layers", "connections"} THEN 2
                       ELSE IF s = "recorder_models" THEN 0 ELSE 1]}

\* The objects of a network: the sort and the number of each.
NetworkObjects(counts) ==
    UNION {{<<s, i>> : i \in 1 .. counts[s]} : s \in Stages}

\* Network.__init__, as NewNetwork: KeyError when a connection or a
\* population finds no layer; otherwise nothing is created.  log lists the
\* bodies of create() that ran, with whether they completed.
NewRetryNetwork(counts) ==
    IF NewNetwork(counts).kind # "ok" THEN NewNetwork(counts)
    ELSE [kind |-> "ok", counts |-> counts, created |-> FALSE,
          objects_created |-> {}, calls |-> 0, log |-> <<>>,
          last |-> [kind |-> "none", dry_run |-> FALSE, fail |-> None]]

\* obj.create() under @if_not_created, where the body of the object `fail`
\* raises: the flag is set before the body runs and reset when it raises.
ObjectCreateUnguarded(n, stage, index, fail) ==
    IF fail = <<stage, index>>
    THEN [kind |-> "Exception",
          net |-> [n EXCEPT !.log = Append(@, [stage |-> stage,
                                               index |-> index,
                                               completed |-> FALSE])]]
    ELSE [kind |-> "ok",
          net |-> [n EXCEPT !.objects_created = @ \cup {<<stage, index>>},
                            !.log = Append(@, [stage |-> stage,
                                               index |-> index,
                                               completed |-> TRUE])]]

ObjectCreateOrFail(n, stage, index, fail) ==
    IF <<stage, index>> \in n.objects_created
    THEN [kind |-> "ok", net |-> n]
    ELSE IF fail = <<stage, index>>
    THEN [kind |-> "Exception",
          net |-> [n EXCEPT !.log = Append(@, [stage |-> stage,
                                               index |-> index,
                                               completed |-> FALSE])]]
    ELSE [kind |-> "ok",
          net |-> [n EXCEPT !.objects_created = @ \cup {<<stage, index>>},
                            !.log = Append(@, [stage |-> stage,
                                               index |-> index,
                                               completed |-> TRUE])]]

\* self._create_all(objects): the first exception ends the loop.
RECURSIVE create_all_or_fail(_, _, _, _)
create_all_or_fail(n, stage, index, fail) ==
    IF index > n.counts[stage] THEN [kind |-> "ok", net |-> n]
    ELSE LET r == ObjectCreateOrFail(n, stage, index, fail)
         IN  IF r.kind # "ok" THEN r
             ELSE create_all_or_fail(r.net, stage, index + 1, fail)

\* The body of Network.create: the sorts in turn, up to the first exception.
RECURSIVE RetryCreateBody(_, _, _)
RetryCreateBody(n, stages, fail) ==
    IF stages = <<>> THEN [kind |-> "ok", net |-> n]
    ELSE LET r == create_all_or_fail(n, Head(stages), 1, fail)
         IN  IF r.kind # "ok" THEN r
             ELSE RetryCreateBody(r.net, Tail(stages), fail)

\* Network.create(dry_run) under @if_not_created.
RetryCreateCall(n, dry_run, fail) ==
    IF n.created THEN [kind |-> "skipped", net |-> n]
    ELSE LET r == RetryCreateBody([n EXCEPT !.created = TRUE],
                                  create_stages(dry_run), fail)
         IN  IF r.kind = "ok" THEN r
             ELSE [r EXCEPT !.net.created = FALSE]

----------------------------------------------------------------------------
(* InputLayer (denest/network/layers.py and nets/network/layers.py)       *)

\* Largest number of create() calls made on an input layer.
MaxCreates == 2

\* Two more stimulator models; the second is not one of
\* InputLayer.STIMULATORS.
PoissonGenerator == <<"poisson_generator">>
DcGenerator == <<"dc_generator">>

\* InputLayer.STIMULATORS
STIMULATORS == {"spike_generator", "poisson_generator"}

\* params['populations'] of an input layer, as the sequence of its items.
InputPopConfigs ==
    { <<>>,
      << <<Stimulator, 1>> >>,
      << <<PoissonGenerator, 1>> >>,
      << <<DcGenerator, 1>> >>,
      << <<Stimulator, 2>> >>,
      << <<Stimulator, 1>>, <<E, 1>> >> }

\* nest.GetDefaults(model, 'type_id'): the models here are built-in ones,
\* whose type is their name.
EngineTypeId(model) == model[1]

\* params['input_rate_scale_factor'] of a nets input layer
ScaleFactors == {1, 2}

NoInput ==
    [built |-> FALSE, stimulator_model |-> None, stimulator_type |-> "None",
     input_rate_scale_factor |-> 1, attempts |-> 0, creates |-> 0]

\* The checks of InputLayer.__init__ on params['populations']
\* (denest layers.py:364-371, nets layers.py:364-374).
InputPopulationsErrorOneOnly(impl, populations) ==
    IF Len(populations) # 1
    THEN IF impl = "denest" THEN "ParameterError" ELSE "ValueError"
    ELSE "ok"
InputPopulationsError(impl, populations) ==
    IF Len(populations) # 1 \/ populations[1][2] # 1
    THEN IF impl = "denest" THEN "ParameterError" ELSE "ValueError"
    ELSE "ok"

\* InputLayer.__init__: the outcome and, when accepted, the layer with the
\* parrot population added and the attributes of the input layer.
NewInputLayer(impl, shape, populations, input_rate_scale_factor) ==
    IF InputPopulationsError(impl, populations) # "ok"
    THEN [kind |-> InputPopulationsError(impl, populations),
          layer |-> NewLayer(impl, <<1, 1>>, << <<E, 1>> >>),
          input |-> NoInput]
    ELSE [kind |-> "ok",
          layer |-> NewLayer(impl, shape,
                             Append(populations, <<ParrotModel, 1>>)),
          input |-> [NoInput EXCEPT
                        !.built = TRUE,
                        !.stimulator_model = populations[1][1],
                        !.input_rate_scale_factor =
                            input_rate_scale_factor]]

\* stim_gids += self.gids(location=loc, population=...) for loc in self
\* (denest layers.py:393-395).
RECURSIVE GidsByLocation(_, _, _, _)
GidsByLocation(l, eng, population, locs) ==
    IF locs = <<>> THEN <<>>
    ELSE LayerGidsCall(l, eng, population, Head(locs), None).gids
         \o GidsByLocation(l, eng, population, Tail(locs))

\* The connection call of InputLayer.create and the pairs it connects.
\* denest: nest.Connect(stim_gids, parrot_gids, 'one_to_one') pairs the two
\* lists element by element.  nets: tp.ConnectLayers of the layer with
\* itself, from the stimulator to the parrot model, within a circular mask
\* of a tenth of a grid step, which holds the nodes of the same grid
\* position only.
InputConnectCall(l, eng, stimulator_model) ==
    IF l.impl = "denest"
    THEN LET stim_gids == GidsByLocation(l, eng, stimulator_model,
                                         GridIndices(l.shape))
             parrot_gids == GidsByLocation(l, eng, ParrotModel,
                                           GridIndices(l.shape))
         IN  [call |-> "Connect", source |-> 0, target |-> 0,
              sources |-> None, targets |-> None,
              pairs |-> {<<stim_gids[i], parrot_gids[i]>> :
                            i \in DOMAIN stim_gids \cap DOMAIN parrot_gids}]
    ELSE [call |-> "ConnectLayers", source |-> l.gid, target |-> l.gid,
          sources |-> stimulator_model, targets |-> ParrotModel,
          pairs |-> {<<s, t>> \in (DOMAIN eng.nodes) \X (DOMAIN eng.nodes) :
                        /\ EngineModel(eng, s) = stimulator_model
                        /\ EngineModel(eng, t) = ParrotModel
                        /\ eng.nodes[s].column = eng.nodes[t].column
                        /\ eng.nodes[s].row = eng.nodes[t].row}]

\* InputLayer.create, which is not itself under @if_not_created:
\* super().create() is, and the rest runs at every call.  The nets layer
\* then refuses a stimulator whose type is not in STIMULATORS.
InputLayerCreateCall(l, eng, inp) ==
    LET base == LayerCreateCall(l, eng)
        type == EngineTypeId(inp.stimulator_model)
    IN  IF base.kind \notin {"ok", "skipped"}
        THEN [kind |-> base.kind, layer |-> base.layer, engine |-> base.engine,
              input |-> inp, calls |-> <<>>]
        ELSE [kind |-> IF l.impl = "nets" /\ type \notin STIMULATORS
                       THEN "ValueError" ELSE "ok",
              layer |-> base.layer,
              engine |-> base.engine,
              input |-> [inp EXCEPT !.stimulator_type = type],
              calls |-> << InputConnectCall(base.layer, base.engine,
                                            inp.stimulator_model) >>]

----------------------------------------------------------------------------
(* Connections (spiking_visnet/nestify/build.py)                          *)

\* Largest number of connections asked from one connection model.
MaxBuilds == 2

\* Numbers are fractions <<numerator, denominator>> in lowest terms, so
\* that the products and quotients of the scaling are exact.
RECURSIVE GCD(_, _)
GCD(a, b) == IF b = 0 THEN a ELSE GCD(b, a % b)
Rat(n, d) == <<n \div GCD(n, d), d \div GCD(n, d)>>
RatMul(a, b) == Rat(a[1] * b[1], a[2] * b[2])
RatDiv(a, b) == Rat(a[1] * b[2], a[2] * b[1])
RatOne == <<1, 1>>

\* Connection.DEFAULT_SCALE_FACTOR
DEFAULT_SCALE_FACTOR == RatOne

\* params.get(key, default)
ParamGet(params, key, default) ==
    IF key \in DOMAIN params THEN params[key] ELSE default

\* The parameters of the layers that connections join.  The first layer
\* leaves scale_kernels_masks, rf_scale_factor and weight_gain to their
\* defaults, the third does not scale, the fourth has a single location.
ConnLayerParams ==
    [l1 |-> [nrows |-> 3, ncols |-> 2, visSize |-> Rat(4, 1)],
     l2 |-> [nrows |-> 2, ncols |-> 4, visSize |-> Rat(3, 1),
             scale_kernels_masks |-> TRUE, rf_scale_factor |-> Rat(5, 1),
             weight_gain |-> Rat(3, 1)],
     l3 |-> [nrows |-> 3, ncols |-> 3, visSize |-> Rat(4, 1),
             scale_kernels_masks |-> FALSE, rf_scale_factor |-> Rat(2, 1),
             weight_gain |-> Rat(1, 2)],
     l4 |-> [nrows |-> 1, ncols |-> 1, visSize |-> Rat(1, 1)]]
ConnLayerNames == {"l1", "l2", "l3", "l4"}

\* The (source_layer, target_layer) pairs of the connections of the
\* topology.
ConnLayerPairs ==
    {<<"l1", "l1">>, <<"l1", "l2">>, <<"l2", "l1">>, <<"l1", "l3">>,
     <<"l3", "l1">>, <<"l3", "l3">>, <<"l1", "l4">>, <<"l4", "l1">>}

\* The parameters of a connection model: connection_type, kernel, mask and
\* weights.  A kernel is a number or a dictionary with the name of its
\* shape; a mask is a dictionary from shape names to their parameters.
ConnectionModels ==
    {[connection_type |-> type, kernel |-> kernel, mask |-> mask,
      weights |-> Rat(2, 1)] :
        type \in {"convergent", "divergent"},
        kernel \in {[kind |-> "number", value |-> Rat(1, 2)],
                    [kind |-> "gaussian", sigma |-> Rat(3, 1)],
                    [kind |-> "linear", sigma |-> Rat(3, 1)]},
        mask \in {[circular |-> [radius |-> Rat(2, 1)]],
                  [rectangular |->
                      [lower_left |-> <<Rat(1, 1), Rat(2, 1)>>,
                       upper_right |-> <<Rat(3, 1), Rat(4, 1)>>]]}}

\* params['nest_params'] of one connection: nothing, or its own
\* connection_type, kernel or weights.
OwnParams ==
    {<<>>,
     [connection_type |-> "divergent"],
     [kernel |-> [kind |-> "gaussian", sigma |-> Rat(1, 1)]],
     [weights |-> Rat(5, 1)]}

NoTopology ==
    [declared |-> <<>>, model |-> <<>>, connections |-> <<>>, builds |-> 0,
     last |-> [kind |-> "none", source |-> "none", target |-> "none",
               own |-> <<>>]]

\* AbstractLayer.to_extent_units: the division of a float by 0.0 raises
\* ZeroDivisionError.
to_extent_units(value, extent, rows, columns) ==
    LET size == (IF rows >= columns THEN rows ELSE columns) - 1
    IN  IF size = 0 THEN [kind |-> "ZeroDivisionError", value |-> RatOne]
        ELSE [kind |-> "ok",
              value |-> RatMul(value, RatDiv(extent, Rat(size, 1)))]

\* Layer.extent_units
extent_units(l, value) ==
    to_extent_units(value, l.visSize, l.nrows, l.ncols)

\* ChainMap lookup: the connection's own nest_params come before the
\* parameters of the connection model.
NestParam(own, model, key) ==
    IF key \in DOMAIN own THEN own[key] ELSE model[key]

\* The scale factor of Connection.__init__ (build.py:490-505).
scale_factor_any_target(connection_type, source, target) ==
    IF /\ connection_type = "convergent"
       /\ ParamGet(source, "scale_kernels_masks", TRUE)
    THEN extent_units(source, ParamGet(source, "rf_scale_factor", RatOne))
    ELSE IF ParamGet(target, "scale_kernels_masks", TRUE)
    THEN extent_units(target, ParamGet(target, "rf_scale_factor", RatOne))
    ELSE [kind |-> "ok", value |-> DEFAULT_SCALE_FACTOR]
scale_factor(connection_type, source, target) ==
    IF /\ connection_type = "convergent"
       /\ ParamGet(source, "scale_kernels_masks", TRUE)
    THEN extent_units(source, ParamGet(source, "rf_scale_factor", RatOne))
    ELSE IF /\ connection_type = "divergent"
            /\ ParamGet(target, "scale_kernels_masks", TRUE)
    THEN extent_units(target, ParamGet(target, "rf_scale_factor", RatOne))
    ELSE [kind |-> "ok", value |-> DEFAULT_SCALE_FACTOR]

\* Connection.scale_kernel: float(kernel), or the dictionary itself with
\* the sigma of its gaussian entry scaled in place.
scale_kernel(kernel, factor) ==
    IF kernel.kind = "number" THEN kernel
    ELSE IF kernel.kind = "gaussian"
    THEN [kernel EXCEPT !.sigma = RatMul(@, factor)]
    ELSE kernel

\* Connection.scale_mask: the dictionary itself, changed in place.
scale_mask(mask, factor) ==
    [shape \in DOMAIN mask |->
        IF shape = "circular"
        THEN [mask[shape] EXCEPT !.radius = RatMul(@, factor)]
        ELSE IF shape = "rectangular"
        THEN [key \in DOMAIN mask[shape] |->
                 [i \in DOMAIN mask[shape][key] |->
                     RatMul(mask[shape][key][i], factor)]]
        ELSE mask[shape]]

\* Connection.scale_weights
scale_weights(weights, source) ==
    RatMul(weights, ParamGet(source, "weight_gain", RatOne))

\* Connection.__init__ with the layers, the parameters of the connection
\* model and the connection's own nest_params.  The kernel and mask
\* dictionaries are the objects held by the connection's own nest_params
\* or, failing that, by the connection model, and scaling changes them
\* where they are; the connection keeps references to them.
NewConnection(source, target, model, own) ==
    LET s == ConnLayerParams[source]
        t == ConnLayerParams[target]
        factor == scale_factor(NestParam(own, model, "connection_type"), s, t)
        kernel == scale_kernel(NestParam(own, model, "kernel"), factor.value)
        mask == scale_mask(NestParam(own, model, "mask"), factor.value)
    IN  IF factor.kind # "ok"
        THEN [kind |-> factor.kind, model |-> model, connection |-> <<>>]
        ELSE [kind |-> "ok",
              model |-> [model EXCEPT
                            !.kernel = IF "kernel" \in DOMAIN own
                                       THEN @ ELSE kernel,
                            !.mask = IF "mask" \in DOMAIN own
                                     THEN @ ELSE mask],
              connection |->
                  [source |-> source, target |-> target,
                   given |-> own,
                   own |-> [key \in DOMAIN own |->
                               IF key = "kernel" THEN kernel
                               ELSE IF key = "mask" THEN mask
                               ELSE own[key]],
                   scale_factor |-> factor.value,
                   weights |-> scale_weights(NestParam(own, model, "weights"),
                                             s)]]

\* nest_params[key] of a built connection, for the kernel and the mask:
\* the dictionary that the connection refers to, as it is now.
ConnectionParam(tp, c, key) ==
    IF key \in DOMAIN c.own THEN c.own[key] ELSE tp.model[key]

----------------------------------------------------------------------------
(* Network.change_unit_states (spiking_visnet/network/network.py)         *)

\* Longest list of change directives given to one call.
MaxDirectives == 2
\* Largest number of change calls made on one network.
MaxCalls == 2

\* The layers of the network: name, class and elements.  It has no input
\* layer.
NetLayers ==
    [a |-> [type |-> "Layer", gids |-> <<1, 2>>],
     b |-> [type |-> "Layer", gids |-> <<3>>]]

\* The order of Python strings, for the strings that occur.
StrRank ==
    [InputLayer |-> 1, Layer |-> 2, None |-> 3, V_m |-> 4, a |-> 5, b |-> 6,
     zz |-> 7]
StrLess(x, y) == StrRank[x] < StrRank[y]

\* The parameter dictionaries of the directives.
NoParams == <<>>
SomeParams == [V_m |-> 2]

\* The change directives: dictionaries with a 'params' entry and some of
\* 'layer', 'layer_type', 'proportion' and 'change_type'.  A proportion is
\* its numerator over PropDen.
UnitChanges ==
    {[params |-> SomeParams, layer |-> "a"],
     [params |-> SomeParams, layer |-> "a",
      change_type |-> "multiplicative"],
     [params |-> SomeParams, proportion |-> 1],
     [params |-> NoParams, proportion |-> 1, layer |-> "a"],
     [params |-> SomeParams, layer |-> "zz"],
     [params |-> SomeParams, proportion |-> 1,
      layer_type |-> "InputLayer"]}

\* The lists of directives given to a call.
RECURSIVE ListsUpTo(_, _)
ListsUpTo(S, n) ==
    IF n = 0 THEN {<<>>}
    ELSE ListsUpTo(S, n - 1)
         \cup {Append(l, d) : l \in ListsUpTo(S, n - 1), d \in S}

\* sorted(params.items()): the items in the order of their keys.
RECURSIVE SortedItems(_)
SortedItems(params) ==
    IF DOMAIN params = {} THEN <<>>
    ELSE LET least == CHOOSE k \in DOMAIN params :
                         \A j \in DOMAIN params : k = j \/ StrLess(k, j)
         IN  << <<least, params[least]>> >> \o
             SortedItems([k \in DOMAIN params \ {least} |-> params[k]])

\* unit_sorting_map: a missing proportion gives the string '1', a given one
\* a number.
unit_sorting_map(unit_change) ==
    [layer |-> ParamGet(unit_change, "layer", "None"),
     layer_type |-> ParamGet(unit_change, "layer_type", "None"),
     population |-> ParamGet(unit_change, "population", "None"),
     proportion |-> IF "proportion" \in DOMAIN unit_change
                    THEN [type |-> "number", value |-> unit_change.proportion]
                    ELSE [type |-> "str", value |-> 0],
     items |-> SortedItems(unit_change.params)]

\* The comparison of two lists of items, as Python compares lists of
\* tuples.
RECURSIVE ItemsLess(_, _)
ItemsLess(x, y) ==
    IF y = <<>> THEN FALSE
    ELSE IF x = <<>> THEN TRUE
    ELSE IF Head(x) = Head(y) THEN ItemsLess(Tail(x), Tail(y))
    ELSE IF Head(x)[1] # Head(y)[1] THEN StrLess(Head(x)[1], Head(y)[1])
    ELSE Head(x)[2] < Head(y)[2]

\* The comparison of two sorting keys as tuples: "less", "equal",
\* "greater", or "TypeError" where a number meets a string.
KeyCompare(x, y) ==
    IF x.layer # y.layer
    THEN IF StrLess(x.layer, y.layer) THEN "less" ELSE "greater"
    ELSE IF x.layer_type # y.layer_type
    THEN IF StrLess(x.layer_type, y.layer_type) THEN "less" ELSE "greater"
    ELSE IF x.population # y.population
    THEN IF StrLess(x.population, y.population) THEN "less" ELSE "greater"
    ELSE IF x.proportion # y.proportion
    THEN IF x.proportion.type # y.proportion.type THEN "TypeError"
         ELSE IF x.proportion.value < y.proportion.value THEN "less"
         ELSE "greater"
    ELSE IF x.items = y.items THEN "equal"
    ELSE IF ItemsLess(x.items, y.items) THEN "less" ELSE "greater"

\* sorted(unit_changes, key=unit_sorting_map): a stable sort, which fails
\* with TypeError when two keys that it has to compare cannot be.
RECURSIVE InsertByKey(_, _)
InsertByKey(sorted, d) ==
    IF sorted = <<>> THEN <<d>>
    ELSE IF KeyCompare(unit_sorting_map(d),
                       unit_sorting_map(sorted[Len(sorted)])) = "less"
    THEN Append(InsertByKey(SubSeq(sorted, 1, Len(sorted) - 1), d),
                sorted[Len(sorted)])
    ELSE Append(sorted, d)
RECURSIVE StableSort(_)
StableSort(l) ==
    IF l = <<>> THEN <<>>
    ELSE InsertByKey(StableSort(SubSeq(l, 1, Len(l) - 1)), l[Len(l)])
sorted_unit_changes(unit_changes) ==
    IF \E i, j \in DOMAIN unit_changes :
          KeyCompare(unit_sorting_map(unit_changes[i]),
                     unit_sorting_map(unit_changes[j])) = "TypeError"
    THEN [kind |-> "TypeError", list |-> <<>>]
    ELSE [kind |-> "ok", list |-> StableSort(unit_changes)]

\* Network._get_layers: the layers in the order of their names, of one
\* class if a class is given.
get_layers(layers, layer_type) ==
    LET names == <<"a", "b">>
    IN  SelectSeq(names, LAMBDA n : /\ n \in DOMAIN layers
                                    /\ \/ layer_type = "None"
                                       \/ layers[n].type = layer_type)

\* The inner loop of change_unit_states over the layers of one directive
\* (network.py:236-242).  Its first pass evaluates self.get_gids_subset,
\* an attribute that class Network does not have, before it asks the layer
\* for its elements: AttributeError, and nothing is changed.  With no
\* layer the loop does nothing.
ApplyToLayers(changes, layers) ==
    IF layers = <<>> THEN "ok" ELSE "AttributeError"

\* The test that refuses a probabilistic directive (network.py:221).
RefusedNever(changed, proportion) == FALSE
Refused(changed, proportion) == changed /\ proportion # PropDen

\* The loop of change_unit_states over the sorted directives: how it ends,
\* with done the directives carried out over their layers so far.
RECURSIVE RunDirectives(_, _, _, _)
RunDirectives(list, changed, layers, done) ==
    IF list = <<>> THEN [kind |-> "ok", done |-> done]
    ELSE LET changes == Head(list)
             proportion == ParamGet(changes, "proportion", PropDen)
             change_layer == ParamGet(changes, "layer", "None")
         IN  IF changes.params = NoParams
             THEN RunDirectives(Tail(list), changed, layers, done)
             ELSE IF Refused(changed, proportion)
             THEN [kind |-> "Exception", done |-> done]
             ELSE IF change_layer # "None" /\ change_layer \notin DOMAIN layers
             THEN [kind |-> "KeyError", done |-> done]
             ELSE IF ApplyToLayers(
                         changes,
                         IF change_layer = "None"
                         THEN get_layers(layers,
                                         ParamGet(changes, "layer_type",
                                                  "None"))
                         ELSE <<change_layer>>) # "ok"
             THEN [kind |-> "AttributeError", done |-> done]
             ELSE RunDirectives(Tail(list), changed, layers,
                                Append(done, changes))

\* Network.change_unit_states: the outcome of one call, with the value of
\* _changed after it.
change_unit_states(unit_changes, changed, layers) ==
    LET Run(sorted) ==
            LET r == RunDirectives(sorted.list, changed, layers, <<>>)
            IN  [kind |-> r.kind, order |-> sorted.list, done |-> r.done,
                 changed |-> (changed \/ r.kind = "ok")]
        sorted == sorted_unit_changes(unit_changes)
    IN  IF sorted.kind # "ok"
        THEN [kind |-> sorted.kind, order |-> <<>>, done |-> <<>>,
              changed |-> changed]
        ELSE Run(sorted)

\* A probabilistic directive: parameters to set and a proportion other
\* than 1.
IsProbabilistic(d) ==
    /\ d.params # <<>>
    /\ "proportion" \in DOMAIN d
    /\ d.proportion # PropDen

\* The probabilistic directives among those of a sequence, by position.
ProbabilisticIn(done) ==
    {i \in DOMAIN done : IsProbabilistic(done[i])}

\* Network.__init__: _changed is False and no change call was made;
\* probabilistic counts the probabilistic directives carried out so far.
NewChanges(layers) ==
    [layers |-> layers, changed |-> FALSE, calls |-> 0, returned |-> 0,
     probabilistic |-> 0,
     last |-> [kind |-> "none", given |-> <<>>, order |-> <<>>,
               done |-> <<>>, changed_before |-> FALSE]]
NoChanges == NewChanges(NetLayers)

----------------------------------------------------------------------------
(* Models (spiking_visnet/nestify/build.py)                               *)

\* Largest number of Model objects built one after the other.
MaxModels == 2

\* The models that the kernel knows at the start, each with its defaults.
KernelModels ==
    [iaf |-> [V_m |-> 0],
     ht_neuron |-> [V_m |-> 0, receptor_types |-> [AMPA |-> 1, GABA_A |-> 3]],
     static_synapse |-> [weight |-> 1]]

\* The names and parameters that neuron models are built with.
ModelNames == {"iaf", "my_iaf"}
ModelParams ==
    {[nest_model |-> "iaf"],
     [nest_model |-> "iaf", V_m |-> 2],
     [nest_model |-> "my_iaf", V_m |-> 1],
     [nest_model |-> "zz"],
     [V_m |-> 2]}

\* The names and parameters that synapse models are built with.
SynapseNames == {"static_synapse", "my_syn"}
SynapseParams ==
    {[nest_model |-> "static_synapse", weight |-> 2],
     [nest_model |-> "static_synapse", receptor_type |-> "AMPA"],
     [nest_model |-> "static_synapse", target_neuron |-> "ht_neuron"],
     [nest_model |-> "static_synapse", receptor_type |-> "GABA_A",
      target_neuron |-> "ht_neuron"],
     [nest_model |-> "static_synapse", receptor_type |-> "NMDA",
      target_neuron |-> "ht_neuron"],
     [nest_model |-> "static_synapse", receptor_type |-> "AMPA",
      target_neuron |-> "iaf"],
     [nest_model |-> "static_synapse", receptor_type |-> "AMPA",
      target_neuron |-> "zz"]}

\* A dictionary without one of its keys, and a dictionary updated with
\* another.
Without(d, key) == [k \in DOMAIN d \ {key} |-> d[k]]
Updated(d, e) ==
    [k \in DOMAIN d \cup DOMAIN e |-> IF k \in DOMAIN e THEN e[k] ELSE d[k]]

NoModelObject ==
    [class |-> "none", name |-> "none", nest_model |-> "none",
     params |-> <<>>, nest_params |-> <<>>, created |-> FALSE]

\* Model.__init__: the outcome and the object.
NewModel(name, params) ==
    IF "nest_model" \notin DOMAIN params
    THEN [kind |-> "KeyError", object |-> NoModelObject]
    ELSE [kind |-> "ok",
          object |-> [class |-> "Model", name |-> name,
                      nest_model |-> params.nest_model,
                      params |-> Without(params, "nest_model"),
                      nest_params |-> Without(params, "nest_model"),
                      created |-> FALSE]]

\* nest.GetDefaults(target)['receptor_types'][receptor_type]
ReceptorIndex(kernel, target, receptor_type) ==
    IF target \notin DOMAIN kernel
    THEN [kind |-> "NESTError", value |-> 0]
    ELSE IF "receptor_types" \notin DOMAIN kernel[target]
    THEN [kind |-> "KeyError", value |-> 0]
    ELSE IF receptor_type \notin DOMAIN kernel[target].receptor_types
    THEN [kind |-> "KeyError", value |-> 0]
    ELSE [kind |-> "ok", value |-> kernel[target].receptor_types[receptor_type]]

\* SynapseModel.__init__
NewSynapseModelKeepTarget(kernel, name, params) ==
    LET base == NewModel(name, params)
        index == ReceptorIndex(kernel, params.target_neuron,
                               params.receptor_type)
    IN  IF base.kind # "ok" THEN base
        ELSE IF "receptor_type" \notin DOMAIN params
        THEN [base EXCEPT !.object.class = "SynapseModel"]
        ELSE IF "target_neuron" \notin DOMAIN params
        THEN [kind |-> "ValueError", object |-> NoModelObject]
        ELSE IF index.kind # "ok"
        THEN [kind |-> index.kind, object |-> NoModelObject]
        ELSE [base EXCEPT
                 !.object.class = "SynapseModel",
                 !.object.nest_params =
                     [@ EXCEPT !.receptor_type = index.value]]
NewSynapseModel(kernel, name, params) ==
    LET base == NewModel(name, params)
        index == ReceptorIndex(kernel, params.target_neuron,
                               params.receptor_type)
    IN  IF base.kind # "ok" THEN base
        ELSE IF "receptor_type" \notin DOMAIN params
        THEN [base EXCEPT !.object.class = "SynapseModel"]
        ELSE IF "target_neuron" \notin DOMAIN params
        THEN [kind |-> "ValueError", object |-> NoModelObject]
        ELSE IF index.kind # "ok"
        THEN [kind |-> index.kind, object |-> NoModelObject]
        ELSE [base EXCEPT
                 !.object.class = "SynapseModel",
                 !.object.nest_params =
                     [Without(@, "target_neuron")
                         EXCEPT !.receptor_type = index.value]]

\* nest.CopyModel(existing, new, params): the kernel refuses an unknown
\* model to copy and a name that is taken.
EngineCopyModel(kernel, existing, new, params) ==
    IF existing \notin DOMAIN kernel \/ new \in DOMAIN kernel
    THEN [kind |-> "NESTError", kernel |-> kernel]
    ELSE [kind |-> "ok",
          kernel |-> [m \in DOMAIN kernel \cup {new} |->
                         IF m = new THEN Updated(kernel[existing], params)
                         ELSE kernel[m]]]

\* nest.SetDefaults(model, params)
EngineSetDefaults(kernel, model, params) ==
    IF model \notin DOMAIN kernel
    THEN [kind |-> "NESTError", kernel |-> kernel]
    ELSE [kind |-> "ok",
          kernel |-> [kernel EXCEPT ![model] = Updated(@, params)]]

\* The body of Model.create: the outcome, the kernel and the call made.
ModelCreateBodyAlwaysCopy(kernel, m) ==
    [r |-> EngineCopyModel(kernel, m.nest_model, m.name, m.nest_params),
     call |-> "CopyModel"]
ModelCreateBody(kernel, m) ==
    IF m.nest_model # m.name
    THEN [r |-> EngineCopyModel(kernel, m.nest_model, m.name, m.nest_params),
          call |-> "CopyModel"]
    ELSE [r |-> EngineSetDefaults(kernel, m.nest_model, m.nest_params),
          call |-> "SetDefaults"]

\* Model.create under @if_not_created.
ModelCreateCall(kernel, m) ==
    IF m.created
    THEN [kind |-> "skipped", kernel |-> kernel, object |-> m, calls |-> <<>>]
    ELSE LET b == ModelCreateBody(kernel, m)
         IN  [kind |-> b.r.kind, kernel |-> b.r.kernel,
              object |-> [m EXCEPT !.created = (b.r.kind = "ok")],
              calls |-> <<b.call>>]

\* No model was built yet.
NoModels ==
    [kernel |-> KernelModels, object |-> NoModelObject, builds |-> 0,
     calls |-> <<>>,
     last |-> [op |-> "none", kind |-> "none", name |-> "none",
               params |-> <<>>, before |-> KernelModels]]

----------------------------------------------------------------------------
(* Session.load_input_array: crop, scale and expand a stimulus array.       *)
(* An array is a sequence of frames, a frame a sequence of rows, a row a    *)
(* sequence of values.                                                      *)

MaxFrames == 2

MaxTime == 2

\* input_layer.shape: the tuple (nrows, ncols)
InputLayerShapes == (1 .. MaxRows) \X (1 .. MaxCols)

\* The arrays that load_raw_stimulus returns, (frames, rows, columns) wide;
\* the entry tells its own position.
RawArray(nframes, nrows, ncols) ==
    [t \in 1 .. nframes |->
        [r \in 1 .. nrows |->
            [c \in 1 .. ncols |-> 100 * t + 10 * r + c]]]

RawArrayShapes ==
    (1 .. MaxFrames) \X (1 .. MaxRows + 1) \X (1 .. MaxCols + 1)

\* input_params of a session, with 'rate_scaling_factor' optional
InputParams ==
    [time_per_frame : {1, 2}]
        \cup [time_per_frame : {1, 2}, rate_scaling_factor : {2}]

\* array.shape of a three-dimensional array with at least one frame and row
ArrayShape(a) ==
    <<Len(a),
      IF Len(a) = 0 THEN 0 ELSE Len(a[1]),
      IF Len(a) = 0 \/ Len(a[1]) = 0 THEN 0 ELSE Len(a[1][1])>>

\* a <= b for two tuples of two numbers, as Python orders tuples
TupleLessEqual(a, b) ==
    \/ a[1] < b[1]
    \/ a[1] = b[1] /\ a[2] <= b[2]

ShapeAccepted(layer_shape, rowcol) == TupleLessEqual(layer_shape, rowcol)

LessOf(a, b) == IF a < b THEN a ELSE b

\* raw_input_array[:, :nrows, :ncols]
Cropped(a, nrows, ncols) ==
    [t \in 1 .. Len(a) |->
        [r \in 1 .. LessOf(nrows, Len(a[t])) |->
            [c \in 1 .. LessOf(ncols, Len(a[t][r])) |-> a[t][r][c]]]]

\* array * scale_factor
Scaled(a, factor) ==
    [t \in 1 .. Len(a) |->
        [r \in 1 .. Len(a[t]) |->
            [c \in 1 .. Len(a[t][r]) |-> a[t][r][c] * factor]]]

\* np.repeat(..., nrepeats, axis=0), then as many whole copies as fit in
\* target_length and the start of one more
expand_stimulus_array(a, nrepeats, target_length) ==
    LET extended == [i \in 1 .. Len(a) * nrepeats |->
                        a[((i - 1) \div nrepeats) + 1]]
    IN  [i \in 1 .. target_length |->
            extended[((i - 1) % Len(extended)) + 1]]

load_input_array(layer_shape, raw, input_params, simulation_time) ==
    LET shape  == ArrayShape(raw)
        rowcol == <<shape[2], shape[3]>>
        rate_scale == ParamGet(input_params, "rate_scaling_factor", 1)
        cropped == Cropped(raw, layer_shape[1], layer_shape[2])
    IN  IF ~ShapeAccepted(layer_shape, rowcol)
        THEN [kind |-> "ValueError", cropped |-> <<>>, returned |-> <<>>]
        ELSE [kind |-> "ok", cropped |-> cropped,
              returned |-> expand_stimulus_array(
                               Scaled(cropped, rate_scale),
                               input_params.time_per_frame,
                               simulation_time)]

NoArray ==
    [op |-> "none", kind |-> "none", layer_shape |-> <<0, 0>>,
     raw |-> <<>>, input_params |-> <<>>, simulation_time |-> 0,
     cropped |-> <<>>, returned |-> <<>>]

----------------------------------------------------------------------------
(* Projections with a weight recorder (denest/network/projections.py).      *)
(* A string is the sequence of the parts that "-" joins.                    *)

MaxAttach == 2

\* The projection models: their name, their type, and the synapse model in
\* their nest_params.
RecorderProjModels ==
    {[name |-> "proj_1", type |-> "topological",
      nest_params |-> [synapse_model |-> <<"static_synapse">>,
                       connection_type |-> "divergent"]],
     [name |-> "proj_1", type |-> "topological",
      nest_params |-> [synapse_model |-> <<"stdp_synapse">>,
                       connection_type |-> "divergent"]],
     [name |-> "proj_2", type |-> "multisynapse",
      nest_params |-> [model |-> <<"static_synapse">>]]}

\* The synapse models of the kernel, with the defaults that matter here.
RecorderKernel ==
    (<<"static_synapse">> :> [weight_recorder |-> 0])
        @@ (<<"stdp_synapse">> :> [weight_recorder |-> 0])

RecorderTypes == {"weight_recorder", "spike_detector"}

RecorderGids == {7, 8}

\* str(population)
StrOf(population) == IF population = None THEN <<"None">> ELSE population

\* The key of the synapse model in nest_params
SynapseModelKey(type) ==
    IF type = "topological" THEN "synapse_model" ELSE "model"

NoRecordedProjection ==
    [built |-> FALSE, name |-> "none", type |-> "none",
     synapse_model_key |-> "none",
     source |-> "none", source_population |-> None,
     target |-> "none", target_population |-> None,
     nest_params |-> <<>>,
     base |-> <<>>, nest |-> <<>>]

\* BaseProjection.__init__ and what TopoProjection.__init__ adds to
\* nest_params
NewRecordedProjection(model, source, source_population, target, target_population) ==
    LET key  == SynapseModelKey(model.type)
        kind == validate_projection(source, source_population, target)
        sources == IF model.type = "topological" /\ source_population # None
                   THEN [sources |-> [model |-> source_population]]
                   ELSE <<>>
        targets == IF model.type = "topological" /\ target_population # None
                   THEN [targets |-> [model |-> target_population]]
                   ELSE <<>>
    IN  IF kind # "ok" THEN [kind |-> kind, proj |-> NoRecordedProjection]
        ELSE [kind |-> "ok",
              proj |-> [built |-> TRUE, name |-> model.name,
                        type |-> model.type,
                        synapse_model_key |-> key,
                        source |-> source,
                        source_population |-> source_population,
                        target |-> target,
                        target_population |-> target_population,
                        nest_params |-> targets @@ sources
                                            @@ model.nest_params,
                        base |-> model.nest_params[key],
                        nest |-> model.nest_params[key]]]

\* BaseProjection.base_synapse_model
base_synapse_model(p) == p.nest

\* BaseProjection.nest_synapse_model
nest_synapse_model(p) == p.nest

\* BaseProjection.__str__
ProjectionStr(p) ==
    <<p.name, p.source>> \o StrOf(p.source_population)
        \o <<p.target>> \o StrOf(p.target_population)

\* BaseProjection._nest_synapse_model_name
nest_synapse_model_name(p) == p.base \o ProjectionStr(p)

\* nest.CopyModel(existing, new, params) on the synapse models
RecorderCopyModel(kernel, existing, new, params) ==
    IF existing \notin DOMAIN kernel \/ new \in DOMAIN kernel
    THEN [kind |-> "NESTError", kernel |-> kernel]
    ELSE [kind |-> "ok",
          kernel |-> (new :> (params @@ kernel[existing])) @@ kernel]

\* BaseProjection._connect_projection_recorder
connect_projection_recorder(p, kernel, recorder_type, recorder_gid) ==
    IF recorder_type # "weight_recorder"
    THEN [kind |-> "ParameterError", proj |-> p, kernel |-> kernel]
    ELSE LET named == [p EXCEPT !.nest = nest_synapse_model_name(p)]
             c == RecorderCopyModel(kernel, named.base, named.nest,
                                    [weight_recorder |-> recorder_gid])
         IN  IF c.kind # "ok"
             THEN [kind |-> c.kind, proj |-> named, kernel |-> kernel]
             ELSE [kind |-> "ok",
                   proj |-> [named EXCEPT
                               !.nest_params[named.synapse_model_key] =
                                   named.nest],
                   kernel |-> c.kernel]

NoRecorder ==
    [projection |-> NoRecordedProjection, model |-> <<>>,
     kernel |-> RecorderKernel, attaches |-> 0,
     last |-> [op |-> "none", kind |-> "none",
               before |-> NoRecordedProjection]]

----------------------------------------------------------------------------
(* Layer.set_state (denest/network/layers.py, nets/network/layers.py)       *)

\* A value that is not an array
ScalarValue(v) == [array |-> FALSE, value |-> v]

\* A two-dimensional array of a shape; every entry tells its own position
ArrayValue(shape) ==
    [array |-> TRUE, shape |-> shape,
     at |-> [index \in (0 .. shape[1] - 1) \X (0 .. shape[2] - 1) |->
                1 + index[1] * shape[2] + index[2]]]

\* The values given to set_state
StateValues ==
    {ScalarValue(v) : v \in {0, MaxStatus}}
        \cup {ArrayValue(<<rows, cols>>) :
                 rows \in 1 .. MaxRows, cols \in 1 .. MaxCols}

\* The variable that SetState sets
StateVariable == "V_m"

\* nest.SetStatus(gids, {variable: value}): the kernel keeps the spike times
\* of a node apart from its other status, which stands for one variable.
EngineSetStatus(eng, gids, variable, value) ==
    IF variable = "spike_times"
    THEN [eng EXCEPT !.spike_times =
            [g \in DOMAIN @ |-> IF g \in Range(gids) THEN value ELSE @[g]]]
    ELSE [eng EXCEPT !.status =
            [g \in DOMAIN @ |-> IF g \in Range(gids) THEN value ELSE @[g]]]

\* A local variable that is never assigned cannot be read
ValuePerLocationBound(values) == values.array

\* The loop over the locations of the layer, from location number i on;
\* writes counts the SetStatus calls made.
RECURSIVE SetStateLoop(_, _, _, _, _, _)
SetStateLoop(l, eng, variable, values, population, i) ==
    IF i > Len(GridIndices(l.shape))
    THEN [kind |-> "ok", engine |-> eng, writes |-> i - 1]
    ELSE IF ~ValuePerLocationBound(values)
    THEN [kind |-> "UnboundLocalError", engine |-> eng, writes |-> i - 1]
    ELSE LET location == GridIndices(l.shape)[i]
             value == IF values.array THEN values.at[location]
                      ELSE values.value
             g == LayerGidsCall(l, eng, population, location, None)
         IN  IF g.kind # "ok"
             THEN [kind |-> g.kind, engine |-> eng, writes |-> i - 1]
             ELSE SetStateLoop(l,
                               EngineSetStatus(eng, g.gids, variable, value),
                               variable, values, population, i + 1)

\* Layer.set_state under @if_created
set_state(l, eng, variable, values, population) ==
    IF ~l.created
    THEN [kind |-> "NotCreatedError", engine |-> eng, writes |-> 0]
    ELSE IF values.array /\ values.shape # l.shape
    THEN [kind |-> "AssertionError", engine |-> eng, writes |-> 0]
    ELSE SetStateLoop(l, eng, variable, values, population, 1)

----------------------------------------------------------------------------
(* InputLayer.set_input (denest/network/layers.py, nets/network/layers.py) *)

\* values[location] for a frame, which is a two-dimensional array
FrameValue(frame) ==
    [array |-> TRUE,
     shape |-> <<Len(frame), IF Len(frame) = 0 THEN 0 ELSE Len(frame[1])>>,
     at |-> [index \in (0 .. Len(frame) - 1)
                          \X (0 .. (IF Len(frame) = 0 THEN 0
                                    ELSE Len(frame[1])) - 1) |->
                frame[index[1] + 1][index[2] + 1]]]

\* array.size of a three-dimensional array
ArraySize(a) == ArrayShape(a)[1] * ArrayShape(a)[2] * ArrayShape(a)[3]

\* InputLayer.set_input(input_array, start_time).  The denest layer first
\* refuses a stimulator type that is not in STIMULATORS, which is also the
\* type of a layer not created yet; the nets layer scales the array by its
\* 'input_rate_scale_factor'.  np.max fails on an array without entries.
\* A poisson generator gets the first frame as its rates.  For a spike
\* generator the spike times come from spike_times.draw_spike_times,
\* which is not part of these sources: all_spike_times is what it
\* returned (start_time goes to it only), and set_state is then called
\* with it.
set_input(l, eng, inp, input_array, all_spike_times) ==
    LET type == inp.stimulator_type
        factor == IF l.impl = "nets" THEN inp.input_rate_scale_factor ELSE 1
        Raised(kind) == [kind |-> kind, engine |-> eng, writes |-> 0]
    IN  IF l.impl = "denest" /\ type \notin STIMULATORS
        THEN Raised("ValueError")
        ELSE IF ArraySize(input_array) = 0 THEN Raised("ValueError")
        ELSE IF type = "poisson_generator"
        THEN set_state(l, eng, "rate",
                       FrameValue(Scaled(input_array, factor)[1]),
                       inp.stimulator_model)
        ELSE IF type = "spike_generator"
        THEN set_state(l, eng, "spike_times", all_spike_times,
                       inp.stimulator_model)
        ELSE IF l.impl = "nets" THEN Raised("NotImplementedError")
        ELSE Raised("AssertionError")

----------------------------------------------------------------------------
(* Simulation and Session (nets/simulation.py, nets/session.py).            *)
(* Kernel time is in whole ms; a simulation_time parameter is a float,      *)
(* written here as a number of half ms.                                     *)

MaxSessions == 2

MaxDuration == 2

MaxRuns == 2

\* The simulation_time parameters of session models: -1, -0.5, 0, 0.5, ...
\* up to MaxDuration ms
SimulationTimes == -2 .. 2 * MaxDuration

\* int(x) of a float given in halves: the fraction is dropped
IntOf(halves) ==
    IF halves >= 0 THEN halves \div 2 ELSE 0 - ((0 - halves) \div 2)

\* The input layer of the network of the simulation: a nets InputLayer
\* named 'l' with one stimulator at each of its locations and an
\* 'input_rate_scale_factor' of 1.
SimLayerShape == <<1, 2>>
SimStimulators == {PoissonGenerator, Stimulator}
NewSimNetwork(stimulator) ==
    LET n == NewInputLayer("nets", SimLayerShape, << <<stimulator, 1>> >>, 1)
    IN  [layer |-> n.layer, engine |-> NoEngine, input |-> n.input]
NoSimNetwork == NewSimNetwork(PoissonGenerator)

\* Network(tree) and network.create() in Simulation.__init__: the input
\* layer is created in the kernel.
SimNetworkCreate(stimulator) ==
    LET n == NewSimNetwork(stimulator)
        c == InputLayerCreateCall(n.layer, n.engine, n.input)
    IN  [layer |-> c.layer, engine |-> c.engine, input |-> c.input]

\* What draw_spike_times may return in a session: an array of the shape
\* of the layer or of another shape, or a value that is not an array.
SimSpikeTimes ==
    {ArrayValue(SimLayerShape), ArrayValue(<<2, 1>>), ScalarValue(0)}

\* What it returns in each of n sessions; it is called for a spike
\* generator only.
SpikeTimesDraws(network, n) ==
    IF network.input.stimulator_model = Stimulator
    THEN [1 .. n -> SimSpikeTimes]
    ELSE {[i \in 1 .. n |-> ScalarValue(0)]}

\* The stimulus files of the input directory, each named by the shape
\* (frames, rows, columns) of the array that load_raw_stimulus reads.
StimulusShapes == {<<1, 1, 2>>, <<1, 1, 1>>, <<1, 2, 1>>, <<2, 1, 2>>}

\* The 'inputs' parameter that gives the layer 'l' a stimulus file.
InputsOf(shape) == [l |-> [filename |-> shape, time_per_frame |-> 1]]

\* The session models: the parameters of a session, with the values of
\* OPTIONAL_PARAMS for those not given.  'unit_changes' and
\* 'synapse_changes' are empty lists throughout.
SessionModel(time, reset, record, inputs) ==
    [simulation_time |-> time, reset_network |-> reset, record |-> record,
     inputs |-> inputs]
SessionModels ==
    {SessionModel(t, FALSE, TRUE, <<>>) : t \in SimulationTimes}
        \cup {SessionModel(2, FALSE, TRUE, InputsOf(shape)) :
                 shape \in StimulusShapes}
        \cup {SessionModel(2, TRUE, TRUE, InputsOf(<<1, 1, 2>>)),
              SessionModel(0, FALSE, TRUE, InputsOf(<<1, 1, 2>>)),
              SessionModel(2, FALSE, FALSE, <<>>)}

\* The one element of a set.  A value bound by {e(x) : x \in {v}} is
\* worked out once, however often e uses it.
Only(S) == CHOOSE x \in S : TRUE

\* Session(name, params, start_time): the error raised, or the session
NewSession(index, params, start_time) ==
    LET time == IntOf(params.simulation_time)
    IN  IF ~(time >= 0)
        THEN [kind |-> "ParameterError", session |-> <<>>]
        ELSE [kind |-> "ok",
              session |-> [index |-> index, params |-> params,
                           start |-> start_time,
                           simulation_time |-> time,
                           end |-> start_time + time,
                           input_arrays |-> [assigned |-> FALSE,
                                             arrays |-> <<>>]]]

\* The loop that creates the sessions in Simulation.__init__, from session
\* number i on, with sessions the sessions made so far
RECURSIVE CreateSessions(_, _, _, _)
CreateSessions(sessions_order, i, sessions, session_start_time) ==
    IF i > Len(sessions_order) THEN [kind |-> "ok", sessions |-> sessions]
    ELSE Only({IF r.kind # "ok" THEN [kind |-> r.kind, sessions |-> <<>>]
               ELSE Only({CreateSessions(sessions_order, i + 1, made,
                                         r.session.end) :
                             made \in {Append(sessions, r.session)}}) :
                  r \in {NewSession(i, sessions_order[i],
                                    session_start_time)}})

\* What a session acts on: the time of the kernel, the rate and the spike
\* times of every node (0 while not set), the start set on the recorders,
\* and the calls made on the network and on the kernel.
NewWorld(eng) ==
    [kernel_time |-> 0,
     rates |-> [g \in DOMAIN eng.status |-> 0],
     spike_times |-> [g \in DOMAIN eng.status |-> 0],
     recorders_start |-> 0,
     network_calls |-> <<>>,
     kernel_calls |-> <<>>]

\* Session.inactivate_recorders for a network without recorders: their
\* start is set to the end of the session.
inactivate_recorders(session, w) ==
    [w EXCEPT !.recorders_start = w.kernel_time + session.simulation_time,
              !.network_calls = Append(@, "recorder_call")]

\* The first part of Session.initialize: the calls made on the network.
InitializeNetwork(session, w) ==
    LET w1 == IF session.params.reset_network
              THEN [w EXCEPT !.network_calls = Append(@, "reset"),
                             !.kernel_calls = Append(@, "ResetNetwork")]
              ELSE w
        w2 == [w1 EXCEPT !.network_calls =
                  @ \o <<"change_synapse_states", "change_unit_states">>]
    IN  IF ~session.params.record THEN inactivate_recorders(session, w2)
        ELSE w2

\* Session.initialize: then, for the input layer if 'inputs' names it, the
\* input array is loaded, kept and set as the input of the layer;
\* all_spike_times is what draw_spike_times returns if it is called.
SessionInitialize(session, w, network, all_spike_times) ==
    LET inputs == session.params.inputs
        none == [assigned |-> TRUE, arrays |-> <<>>]
        SetInput(w3, a, s) ==
            [kind |-> s.kind,
             world |-> [w3 EXCEPT
                           !.rates = s.engine.status,
                           !.spike_times = s.engine.spike_times,
                           !.kernel_calls =
                               @ \o [i \in 1 .. s.writes |-> "SetStatus"]],
             input_arrays |-> [assigned |-> TRUE,
                               arrays |-> [l |-> a.returned]]]
        Load(w3, a) ==
            IF a.kind # "ok"
            THEN [kind |-> a.kind, world |-> w3, input_arrays |-> none]
            ELSE Only({SetInput(w3, a, s) :
                          s \in {set_input(
                                    network.layer,
                                    [network.engine EXCEPT
                                        !.status = w3.rates,
                                        !.spike_times = w3.spike_times],
                                    network.input, a.returned,
                                    all_spike_times)}})
        Inputs(w3) ==
            IF "l" \notin DOMAIN inputs
            THEN [kind |-> "ok", world |-> w3, input_arrays |-> none]
            ELSE Only({Load(w3, a) :
                          a \in {load_input_array(
                                    network.layer.shape,
                                    RawArray(inputs.l.filename[1],
                                             inputs.l.filename[2],
                                             inputs.l.filename[3]),
                                    inputs.l, session.simulation_time)}})
    IN  Only({Inputs(w3) : w3 \in {InitializeNetwork(session, w)}})

\* Session.run: the session and the world afterwards, and what the
\* session saw
SessionRun(session, w, network, all_spike_times) ==
    LET after == w.kernel_time + session.simulation_time
        kind  == IF session.end = after THEN "ok" ELSE "AssertionError"
        Seen(k, time) ==
            [index |-> session.index, kind |-> k,
             before |-> w.kernel_time, after |-> time]
        Simulate(init) ==
            IF init.kind # "ok"
            THEN [kind |-> init.kind, world |-> init.world,
                  session |-> [session EXCEPT
                                  !.input_arrays = init.input_arrays],
                  seen |-> Seen(init.kind, w.kernel_time)]
            ELSE [kind |-> kind,
                  world |-> [init.world EXCEPT
                                !.kernel_time = after,
                                !.kernel_calls = Append(@, "Simulate")],
                  session |-> [session EXCEPT
                                  !.input_arrays = init.input_arrays],
                  seen |-> Seen(kind, after)]
    IN  IF session.start # w.kernel_time
        THEN [kind |-> "AssertionError", world |-> w, session |-> session,
              seen |-> Seen("AssertionError", w.kernel_time)]
        ELSE Only({Simulate(init) :
                      init \in {SessionInitialize(session, w, network,
                                                  all_spike_times)}})

\* Simulation.run from session number i on; drawn[i] is what
\* draw_spike_times returns in session number i
RECURSIVE RunSessions(_, _, _, _, _, _)
RunSessions(sessions, i, w, log, network, drawn) ==
    LET Rest(r, ran, seen) ==
            IF r.kind # "ok"
            THEN [kind |-> r.kind, world |-> r.world, sessions |-> ran,
                  log |-> seen]
            ELSE RunSessions(ran, i + 1, r.world, seen, network, drawn)
    IN  IF i > Len(sessions)
        THEN [kind |-> "ok", world |-> w, sessions |-> sessions,
              log |-> log]
        ELSE Only({Only({Rest(r, next.ran, next.seen) :
                            next \in {[ran |-> [sessions EXCEPT
                                                   ![i] = r.session],
                                       seen |-> Append(log, r.seen)]}}) :
                      r \in {SessionRun(sessions[i], w, network,
                                        drawn[i])}})

NoSimulation ==
    [built |-> FALSE, sessions_order |-> <<>>, sessions |-> <<>>,
     network |-> NoSimNetwork, world |-> NewWorld(NoEngine),
     runs |-> 0, log |-> <<>>,
     last |-> [op |-> "none", kind |-> "none"]]

----------------------------------------------------------------------------
(* The tree operations as actions.  tres records the last call: its       *)
(* operation, arguments, outcome, and the tree it was called on.          *)

NoLayerCall ==
    [op |-> "none", kind |-> "none", population |-> None, location |-> None,
     population_location |-> None, gids |-> <<>>,
     gids_list |-> <<>>, proportion |-> PropDen, change_type |-> "constant",
     changes_dict |-> EmptyFun, reads |-> 0, writes |-> 0,
     prob_before |-> FALSE, populations |-> <<>>,
     values |-> [array |-> FALSE, value |-> 0], input_array |-> <<>>]

\* No change was asked of the layer yet.
NoHistory == [prob |-> 0, full |-> 0]

NoCall == [op |-> "none", key |-> <<>>, value |-> NoValue,
           out |-> Raise("none"), before |-> EmptyTree, other |-> EmptyTree,
           merged |-> EmptyTree]

\* The layer side when only the tree is exercised, and the other way round.
LayerIdle ==
    /\ layer = NewLayer("denest", <<1, 1>>, << <<E, 1>> >>)
    /\ engine = NoEngine
    /\ lres = NoLayerCall
    /\ history = NoHistory
TreeIdle ==
    /\ tree = EmptyTree
    /\ tres = NoCall
\* Nothing was asked of the network, the models, the input array, the
\* recorder or the simulation.
AuxIdle ==
    /\ nchg = NoChanges
    /\ kmodels = NoModels
    /\ arr = NoArray
    /\ rec = NoRecorder
    /\ sim = NoSimulation

BuildIdle ==
    /\ proj = NoProjection
    /\ conns = [held |-> {}, calls |-> <<>>]
    /\ pres = NoProjectionCall
    /\ net = NoNetwork
    /\ input = NoInput
    /\ topo = NoTopology

TreeInit ==
    /\ tree \in TreesOf(MaxNodes)
    /\ tres = NoCall
    /\ LayerIdle
    /\ BuildIdle
    /\ AuxIdle

\* tree[(c1, ..., cn, K)]
TreeGet ==
    \E path \in PathsOf(MaxNodes - 1), k \in Keys :
        /\ tres' = [NoCall EXCEPT !.op = "get", !.key = Append(path, k),
                                  !.out = Params_getitem(tree, Append(path, k)),
                                  !.before = tree]
        /\ UNCHANGED <<tree, layerVars, buildVars, auxVars>>

\* tree[K]
TreeGetKey ==
    \E k \in Keys :
        /\ tres' = [NoCall EXCEPT !.op = "getkey", !.key = <<k>>,
                                  !.out = Params_getitem_key(tree, k),
                                  !.before = tree]
        /\ UNCHANGED <<tree, layerVars, buildVars, auxVars>>

\* tree[(c1, ..., cn, K)] = v
TreeSet ==
    \E path \in PathsOf(MaxNodes - 1), k \in Keys, v \in Values :
        LET r == Params_setitem(tree, Append(path, k), v)
        IN  /\ tres' = [NoCall EXCEPT !.op = "set", !.key = Append(path, k),
                                      !.value = v, !.out = r.out,
                                      !.before = tree]
            /\ tree' = r.tree
            /\ UNCHANGED <<layerVars, buildVars, auxVars>>

\* node[K] = v on the node object at `self` (tree.get_node(self)[K] = v, or
\* tree[K] = v for the root).
TreeSetKey ==
    \E self \in DOMAIN tree, k \in Keys, v \in Values :
        /\ tres' = [NoCall EXCEPT !.op = "setkey", !.key = Append(self, k),
                                  !.value = v, !.out = Ok(v),
                                  !.before = tree]
        /\ tree' = SetLocal(tree, self, k, v)
        /\ UNCHANGED <<layerVars, buildVars, auxVars>>

TreeNext == TreeGet \/ TreeGetKey \/ TreeSet \/ TreeSetKey

SpecTree == TreeInit /\ [][TreeNext]_vars

\* Params.merge(tree, other)
MergeInit ==
    /\ tree \in TreesOf(MergeNodes)
    /\ tres = NoCall
    /\ LayerIdle
    /\ BuildIdle
    /\ AuxIdle

TreeMerge ==
    \E other \in TreesOf(MergeNodes) :
        /\ tres.op = "none"
        /\ tres' = [NoCall EXCEPT !.op = "merge", !.other = other,
                                  !.before = tree,
                                  !.merged = Tree_merge(<<tree, other>>)]
        /\ UNCHANGED <<tree, layerVars, buildVars, auxVars>>

SpecMerge == MergeInit /\ [][TreeMerge]_vars

----------------------------------------------------------------------------
(* The layer operations as actions.  lres records the last call on the    *)
(* layer: its operation, arguments, outcome and returned list.            *)

GridLocations(shape) == (0 .. shape[1] - 1) \X (0 .. shape[2] - 1)

\* Layer(name, params, nest_params) for a shape and populations.
LayerInit ==
    /\ \E impl \in Impls, rows \in 1 .. MaxRows, cols \in 1 .. MaxCols,
          populations \in PopConfigs :
          layer = NewLayer(impl, <<rows, cols>>, populations)
    /\ engine = NoEngine
    /\ lres = NoLayerCall
    /\ history = NoHistory
    /\ TreeIdle
    /\ AuxIdle
    /\ BuildIdle

\* layer.create()
LayerCreate ==
    LET r == LayerCreateCall(layer, engine)
    IN  /\ layer' = r.layer
        /\ engine' = r.engine
        /\ lres' = [NoLayerCall EXCEPT !.op = "create", !.kind = r.kind]
        /\ UNCHANGED <<history, treeVars, buildVars, auxVars>>

\* layer.gids(population, location, population_location); the nets layer
\* has no population_location argument.  A query changes nothing but lres,
\* so a query made after another query reaches no state that a single query
\* does not reach: only the first query of a run is explored.
LayerGids ==
    \E population \in PopNames \cup {None},
       location \in GridLocations(layer.shape) \cup {None},
       population_location \in
           (GridLocations(layer.shape) \X (0 .. Len(layer.nest_params.elements)))
           \cup {None} :
        /\ lres.op # "gids"
        /\ layer.impl = "nets" => population_location = None
        /\ LET r == LayerGidsCall(layer, engine, population, location,
                                  IF population_location = None THEN None
                                  ELSE Append(population_location[1],
                                              population_location[2]))
           IN  lres' = [NoLayerCall EXCEPT
                        !.op = "gids", !.kind = r.kind,
                        !.population = population, !.location = location,
                        !.population_location =
                            IF population_location = None THEN None
                            ELSE Append(population_location[1],
                                        population_location[2]),
                        !.gids = r.gids]
        /\ UNCHANGED <<layer, engine, history, treeVars, buildVars, auxVars>>

LayerNext == LayerCreate \/ LayerGids

SpecLayer == LayerInit /\ [][LayerNext]_vars

\* AbstractLayer.get_gids_subset(gids_list, proportion), a static method:
\* the arguments are drawn first, then the method is applied to them.
GidLists == SeqsUpTo({2, 3}, MaxLen)

SubsetInit ==
    /\ \E gids_list \in GidLists, num \in 0 .. PropDen :
          lres = [NoLayerCall EXCEPT !.op = "subset_args",
                                     !.gids_list = gids_list,
                                     !.proportion = num]
    /\ layer = NewLayer("denest", <<1, 1>>, << <<E, 1>> >>)
    /\ engine = NoEngine
    /\ history = NoHistory
    /\ TreeIdle
    /\ AuxIdle
    /\ BuildIdle

GetGidsSubset ==
    /\ lres.op = "subset_args"
    /\ \E sample \in RandomSamples(Len(lres.gids_list),
                                   SampleSize(lres.gids_list, lres.proportion)) :
          lres' = [lres EXCEPT !.op = "subset", !.kind = "ok",
                               !.gids = get_gids_subset(lres.gids_list, sample)]
    /\ UNCHANGED <<layer, engine, history, treeVars, buildVars, auxVars>>

SpecSubset == SubsetInit /\ [][GetGidsSubset]_vars

\* The layer on which change_unit_states is exercised has one grid location
\* and three elements; E2 is not one of its populations.
ChangeConfigs == { << <<E, 2>>, <<I, 1>> >> }
ChangePopulations == {None, E, E2}

\* changes_dict: empty, or one value for the state parameter.
ChangesDicts == {EmptyFun, [k \in {"V_m"} |-> 2]}

ChangeInit ==
    /\ \E impl \in Impls, populations \in ChangeConfigs :
          layer = NewLayer(impl, <<1, 1>>, populations)
    /\ engine = NoEngine
    /\ lres = NoLayerCall
    /\ history = NoHistory
    /\ TreeIdle
    /\ AuxIdle
    /\ BuildIdle

\* A call that asks a change of the layer: the layer is created, the
\* arguments are in the documented domain (a population of the layer or
\* None, a proportion in [0, 1], a known change_type) and changes_dict is
\* not empty.
IsChange(l, changes_dict, population, num, change_type) ==
    /\ l.created
    /\ DOMAIN changes_dict # {}
    /\ population \in population_names(l) \cup {None}
    /\ num \in 0 .. PropDen
    /\ change_type \in ChangeTypes

\* layer.change_unit_states(changes_dict, population, proportion,
\* change_type), filter_dict of the nets layer left empty.
\* history counts, up to two of each, the changes asked with a proportion
\* below 1 and with the proportion 1.
ChangeUnitStates ==
    \E changes_dict \in ChangesDicts, population \in ChangePopulations,
       num \in -1 .. PropDen + 1,
       change_type \in ChangeTypes \cup {"additive"} :
        LET begin == ChangeBegin(layer, engine, changes_dict, population,
                                 num, change_type)
            call == [NoLayerCall EXCEPT
                        !.op = "change", !.kind = begin.kind,
                        !.population = population, !.proportion = num,
                        !.change_type = change_type,
                        !.changes_dict = changes_dict,
                        !.reads = begin.reads,
                        !.prob_before = layer.prob_changed]
        IN  /\ history' =
                    IF ~IsChange(layer, changes_dict, population, num, change_type)
                    THEN history
                    ELSE IF num < PropDen
                    THEN [history EXCEPT !.prob = IF @ < 2 THEN @ + 1 ELSE @]
                    ELSE [history EXCEPT !.full = IF @ < 2 THEN @ + 1 ELSE @]
            /\ UNCHANGED <<treeVars, buildVars, auxVars>>
            /\ IF begin.kind # "ok"
               THEN /\ lres' = call
                    /\ UNCHANGED <<layer, engine>>
               ELSE \E sample \in RandomSamples(Len(begin.all_gids), begin.size) :
                       LET end == ChangeEnd(layer, engine, begin, sample,
                                            changes_dict, change_type)
                       IN  /\ \A g \in DOMAIN end.engine.status :
                                 end.engine.status[g] <= MaxStatus
                           /\ layer' = end.layer
                           /\ engine' = end.engine
                           /\ lres' = [call EXCEPT !.kind = end.kind,
                                                   !.reads = end.reads,
                                                   !.writes = end.writes]

ChangeNext == LayerCreate \/ ChangeUnitStates

SpecChange == ChangeInit /\ [][ChangeNext]_vars

----------------------------------------------------------------------------
(* The life of one projection object *)

\* The kernel holds some labelled connections, made by other projections;
\* calls lists the connection calls that this projection made.
ProjInit ==
    /\ proj = NoProjection
    /\ \E held \in SUBSET ConnUniverse :
          /\ Cardinality(held) <= MaxConns
          /\ conns = [held |-> held, calls |-> <<>>]
    /\ pres = NoProjectionCall
    /\ net = NoNetwork
    /\ input = NoInput
    /\ topo = NoTopology
    /\ TreeIdle
    /\ AuxIdle
    /\ LayerIdle

\* TopoProjection(...) or MultiSynapseProjection(model, source_layer,
\* source_population, target_layer, target_population).
BuildProjection ==
    /\ ~proj.built
    /\ \E model \in ProjModels, source \in ProjLayerNames,
          source_population \in ProjPopulations, target \in ProjLayerNames,
          target_population \in ProjPopulations :
          LET r == NewProjection(model, source, source_population, target,
                                 target_population)
          IN  /\ proj' = r.proj
              /\ pres' = [op |-> "build", kind |-> r.kind, model |-> model,
                          source |-> source,
                          source_population |-> source_population,
                          target |-> target,
                          target_population |-> target_population]
    /\ UNCHANGED <<conns, net, input, topo, treeVars, layerVars, auxVars>>

\* projection.create()
ProjectionCreate ==
    /\ proj.built
    /\ LET r == ProjectionCreateCall(proj, conns.held)
       IN  /\ proj' = r.proj
           /\ conns' = [conns EXCEPT !.calls = @ \o r.calls]
           /\ pres' = [pres EXCEPT !.op = "create", !.kind = r.kind]
    /\ UNCHANGED <<net, input, topo, treeVars, layerVars, auxVars>>

ProjNext == BuildProjection \/ ProjectionCreate

SpecProj == ProjInit /\ [][ProjNext]_vars

----------------------------------------------------------------------------
(* The life of one Network object *)

NetInit ==
    /\ \E counts \in [Stages -> 0 .. MaxPerStage] :
          /\ NewNetwork(counts).kind = "ok"
          /\ net = NewNetwork(counts)
    /\ proj = NoProjection
    /\ conns = [held |-> {}, calls |-> <<>>]
    /\ pres = NoProjectionCall
    /\ input = NoInput
    /\ topo = NoTopology
    /\ TreeIdle
    /\ AuxIdle
    /\ LayerIdle

\* network.create(dry_run); calls counts the calls made, up to two, and
\* dry_run is the argument of the first call.
NetworkCreate ==
    /\ net.calls < 2
    /\ \E dry_run \in BOOLEAN :
          net' = [NetworkCreateCall(net, dry_run) EXCEPT
                     !.calls = @ + 1,
                     !.dry_run = IF net.calls = 0 THEN dry_run ELSE @]
    /\ UNCHANGED <<projVars, input, topo, treeVars, layerVars, auxVars>>

SpecNet == NetInit /\ [][NetworkCreate]_vars

----------------------------------------------------------------------------
(* The life of one InputLayer object *)

InputInit ==
    /\ input = NoInput
    /\ LayerIdle
    /\ TreeIdle
    /\ AuxIdle
    /\ proj = NoProjection
    /\ conns = [held |-> {}, calls |-> <<>>]
    /\ pres = NoProjectionCall
    /\ net = NoNetwork
    /\ topo = NoTopology

\* InputLayer(name, params, ...) with a shape and populations.
BuildInputLayer ==
    /\ ~input.built
    /\ \E impl \in Impls, rows \in 1 .. MaxRows, cols \in 1 .. MaxCols,
          populations \in InputPopConfigs, factor \in ScaleFactors :
          LET r == NewInputLayer(impl, <<rows, cols>>, populations,
                                 IF impl = "nets" THEN factor ELSE 1)
          IN  /\ layer' = r.layer
              /\ input' = r.input
              /\ lres' = [NoLayerCall EXCEPT !.op = "input_init",
                                             !.kind = r.kind,
                                             !.populations = populations]
    /\ UNCHANGED <<engine, history, projVars, net, topo, treeVars, auxVars>>

\* input_layer.create(); attempts counts the calls and creates those that
\* returned.
InputLayerCreate ==
    /\ input.built
    /\ input.attempts < MaxCreates
    /\ LET r == InputLayerCreateCall(layer, engine, input)
       IN  /\ layer' = r.layer
           /\ engine' = r.engine
           /\ input' = [r.input EXCEPT
                          !.attempts = @ + 1,
                          !.creates = IF r.kind = "ok" THEN @ + 1 ELSE @]
           /\ conns' = [conns EXCEPT !.calls = @ \o r.calls]
           /\ lres' = [NoLayerCall EXCEPT !.op = "create", !.kind = r.kind]
    /\ UNCHANGED <<history, proj, pres, net, topo, treeVars, auxVars>>

\* input_layer.gids(population, location), an accessor under @if_created.
InputLayerGids ==
    /\ input.built
    /\ lres.op # "gids"
    /\ \E population \in {None, input.stimulator_model, ParrotModel},
          location \in GridLocations(layer.shape) \cup {None} :
          LET r == LayerGidsCall(layer, engine, population, location, None)
          IN  lres' = [NoLayerCall EXCEPT
                          !.op = "gids", !.kind = r.kind,
                          !.population = population, !.location = location,
                          !.gids = r.gids]
    /\ UNCHANGED <<layer, engine, history, buildVars, treeVars, auxVars>>

\* The arrays given to set_input on a layer of a shape: of no frame, or of
\* some frames that have the shape of the layer or one column more.
InputArrays(shape) ==
    {RawArray(nframes, shape[1], ncols) :
        nframes \in 0 .. MaxFrames, ncols \in {shape[2], shape[2] + 1}}

\* What draw_spike_times may return: an array of the shape of the layer or
\* of that shape with one column more, or a value that is not an array.
\* It is called for a spike generator only.
SpikeTimesDrawn(shape, inp) ==
    IF inp.stimulator_type = "spike_generator"
    THEN {ArrayValue(shape), ArrayValue(<<shape[1], shape[2] + 1>>),
          ScalarValue(0)}
    ELSE {NoLayerCall.values}

\* input_layer.set_input(input_array, start_time)
InputLayerSetInput ==
    /\ input.built
    /\ \E input_array \in InputArrays(layer.shape),
          all_spike_times \in SpikeTimesDrawn(layer.shape, input) :
          \E r \in {set_input(layer, engine, input, input_array,
                              all_spike_times)} :
              /\ engine' = r.engine
              /\ lres' = [NoLayerCall EXCEPT
                             !.op = "set_input", !.kind = r.kind,
                             !.input_array = input_array,
                             !.values = all_spike_times,
                             !.writes = r.writes]
    /\ UNCHANGED <<layer, history, buildVars, treeVars, auxVars>>

InputNext ==
    \/ BuildInputLayer
    \/ InputLayerCreate
    \/ InputLayerGids
    \/ InputLayerSetInput

SpecInput == InputInit /\ [][InputNext]_vars

----------------------------------------------------------------------------
(* The connections built from one connection model *)

\* Network.__init__ builds the connection models before the connections;
\* declared keeps the parameters of the model as configured.
ConnInit ==
    /\ \E model \in ConnectionModels :
          topo = [NoTopology EXCEPT !.declared = model, !.model = model]
    /\ proj = NoProjection
    /\ conns = [held |-> {}, calls |-> <<>>]
    /\ pres = NoProjectionCall
    /\ net = NoNetwork
    /\ input = NoInput
    /\ TreeIdle
    /\ AuxIdle
    /\ LayerIdle

\* Network.build_connection: Connection(source, target, model, params)
BuildConnection ==
    /\ topo.builds < MaxBuilds
    /\ \E pair \in ConnLayerPairs, own \in OwnParams :
          LET source == pair[1]
              target == pair[2]
              r == NewConnection(source, target, topo.model, own)
          IN  topo' = [topo EXCEPT
                          !.model = r.model,
                          !.builds = @ + 1,
                          !.connections = IF r.kind = "ok"
                                          THEN Append(@, r.connection)
                                          ELSE @,
                          !.last = [kind |-> r.kind, source |-> source,
                                    target |-> target, own |-> own]]
    /\ UNCHANGED <<proj, conns, pres, net, input, treeVars, layerVars, auxVars>>

SpecConn == ConnInit /\ [][BuildConnection]_vars

----------------------------------------------------------------------------
(* The change calls made on one network *)

NetChangeInit ==
    /\ nchg = NoChanges
    /\ kmodels = NoModels
    /\ arr = NoArray
    /\ rec = NoRecorder
    /\ sim = NoSimulation
    /\ TreeIdle
    /\ LayerIdle
    /\ BuildIdle

\* network.change_unit_states(unit_changes)
NetworkChangeUnitStates ==
    /\ nchg.calls < MaxCalls
    /\ \E unit_changes \in ListsUpTo(UnitChanges, MaxDirectives) :
          \E r \in {change_unit_states(unit_changes, nchg.changed,
                                       nchg.layers)} :
              nchg' = [layers |-> nchg.layers,
                       changed |-> r.changed,
                       calls |-> nchg.calls + 1,
                       returned |-> nchg.returned
                                      + (IF r.kind = "ok" THEN 1 ELSE 0),
                       probabilistic |->
                           nchg.probabilistic
                             + Cardinality(ProbabilisticIn(r.done)),
                       last |-> [kind |-> r.kind, given |-> unit_changes,
                                 order |-> r.order, done |-> r.done,
                                 changed_before |-> nchg.changed]]
    /\ UNCHANGED <<treeVars, layerVars, buildVars, kmodels, arr, rec, sim>>

SpecNetChange == NetChangeInit /\ [][NetworkChangeUnitStates]_vars

----------------------------------------------------------------------------
(* The models built and created in one kernel *)

ModelInit ==
    /\ kmodels = NoModels
    /\ nchg = NoChanges
    /\ arr = NoArray
    /\ rec = NoRecorder
    /\ sim = NoSimulation
    /\ TreeIdle
    /\ LayerIdle
    /\ BuildIdle

\* Model(name, params)
BuildModel ==
    /\ kmodels.builds < MaxModels
    /\ \E name \in ModelNames, params \in ModelParams :
          LET r == NewModel(name, params)
          IN  kmodels' = [kmodels EXCEPT
                             !.object = r.object,
                             !.builds = @ + 1,
                             !.last = [op |-> "Model", kind |-> r.kind,
                                       name |-> name, params |-> params,
                                       before |-> kmodels.kernel]]
    /\ UNCHANGED <<treeVars, layerVars, buildVars, nchg, arr, rec, sim>>

\* SynapseModel(name, params)
BuildSynapseModel ==
    /\ kmodels.builds < MaxModels
    /\ \E name \in SynapseNames, params \in SynapseParams :
          LET r == NewSynapseModel(kmodels.kernel, name, params)
          IN  kmodels' = [kmodels EXCEPT
                             !.object = r.object,
                             !.builds = @ + 1,
                             !.last = [op |-> "SynapseModel", kind |-> r.kind,
                                       name |-> name, params |-> params,
                                       before |-> kmodels.kernel]]
    /\ UNCHANGED <<treeVars, layerVars, buildVars, nchg, arr, rec, sim>>

\* model.create()
ModelCreate ==
    /\ kmodels.object.class # "none"
    /\ Len(kmodels.calls) < MaxCreates
    /\ LET r == ModelCreateCall(kmodels.kernel, kmodels.object)
       IN  kmodels' = [kmodels EXCEPT
                          !.kernel = r.kernel,
                          !.object = r.object,
                          !.calls = @ \o r.calls,
                          !.last = [@ EXCEPT !.op = "create",
                                             !.kind = r.kind,
                                             !.before = kmodels.kernel]]
    /\ UNCHANGED <<treeVars, layerVars, buildVars, nchg, arr, rec, sim>>

ModelNext == BuildModel \/ BuildSynapseModel \/ ModelCreate

SpecModel == ModelInit /\ [][ModelNext]_vars

----------------------------------------------------------------------------
(* A session loading the input arrays of its input layers *)

ArrayInit ==
    /\ arr = NoArray
    /\ nchg = NoChanges
    /\ kmodels = NoModels
    /\ rec = NoRecorder
    /\ sim = NoSimulation
    /\ TreeIdle
    /\ LayerIdle
    /\ BuildIdle

\* session.load_input_array(input_layer, input_params)
LoadInputArray ==
    /\ \E layer_shape \in InputLayerShapes, s \in RawArrayShapes,
          input_params \in InputParams, simulation_time \in 1 .. MaxTime :
          LET raw == RawArray(s[1], s[2], s[3])
              r   == load_input_array(layer_shape, raw, input_params,
                                      simulation_time)
          IN  arr' = [op |-> "load_input_array", kind |-> r.kind,
                      layer_shape |-> layer_shape, raw |-> raw,
                      input_params |-> input_params,
                      simulation_time |-> simulation_time,
                      cropped |-> r.cropped, returned |-> r.returned]
    /\ UNCHANGED <<treeVars, layerVars, buildVars, nchg, kmodels, rec, sim>>

SpecArray == ArrayInit /\ [][LoadInputArray]_vars

----------------------------------------------------------------------------
(* One projection and the weight recorders attached to it *)

RecorderInit ==
    /\ rec = NoRecorder
    /\ nchg = NoChanges
    /\ kmodels = NoModels
    /\ arr = NoArray
    /\ sim = NoSimulation
    /\ TreeIdle
    /\ LayerIdle
    /\ BuildIdle

\* TopoProjection(model, source_layer, source_population, target_layer,
\* target_population), or MultiSynapseProjection(...)
BuildRecordedProjection ==
    /\ ~rec.projection.built
    /\ \E model \in RecorderProjModels, source \in ProjLayerNames,
          source_population \in ProjPopulations, target \in ProjLayerNames,
          target_population \in ProjPopulations :
          LET r == NewRecordedProjection(model, source, source_population,
                                         target, target_population)
          IN  /\ r.kind = "ok"
              /\ rec' = [rec EXCEPT
                            !.projection = r.proj,
                            !.model = model,
                            !.last = [op |-> "build", kind |-> r.kind,
                                      before |-> rec.projection]]
    /\ UNCHANGED <<treeVars, layerVars, buildVars, nchg, kmodels, arr, sim>>

\* projection._connect_projection_recorder(recorder_type, recorder_gid)
ConnectProjectionRecorder ==
    /\ rec.projection.built
    /\ rec.attaches < MaxAttach
    /\ \E recorder_type \in RecorderTypes, recorder_gid \in RecorderGids :
          LET r == connect_projection_recorder(rec.projection, rec.kernel,
                                               recorder_type, recorder_gid)
          IN  rec' = [rec EXCEPT
                         !.projection = r.proj,
                         !.kernel = r.kernel,
                         !.attaches = @ + 1,
                         !.last = [op |-> "connect_projection_recorder",
                                   kind |-> r.kind,
                                   before |-> rec.projection]]
    /\ UNCHANGED <<treeVars, layerVars, buildVars, nchg, kmodels, arr, sim>>

RecorderNext == BuildRecordedProjection \/ ConnectProjectionRecorder

SpecRecorder == RecorderInit /\ [][RecorderNext]_vars

----------------------------------------------------------------------------
(* One simulation: its construction and its runs *)

SimulationInit ==
    /\ sim = NoSimulation
    /\ nchg = NoChanges
    /\ kmodels = NoModels
    /\ arr = NoArray
    /\ rec = NoRecorder
    /\ TreeIdle
    /\ LayerIdle
    /\ BuildIdle

\* Simulation(tree), once: the kernel is reset, the sessions are created in
\* the order of the 'sessions' parameter, then the network is built and
\* created
NewSimulation ==
    /\ sim.last.op = "none"
    /\ \E sessions_order \in ListsUpTo(SessionModels, MaxSessions),
          stimulator \in SimStimulators :
          \E r \in {CreateSessions(sessions_order, 1, <<>>, 0)} :
          \E network \in {IF r.kind = "ok" THEN SimNetworkCreate(stimulator)
                          ELSE NoSimNetwork} :
              sim' = [sim EXCEPT
                         !.built = (r.kind = "ok"),
                         !.sessions_order = sessions_order,
                         !.sessions = r.sessions,
                         !.network = network,
                         !.world = NewWorld(network.engine),
                         !.last = [op |-> "Simulation", kind |-> r.kind]]
    /\ UNCHANGED <<treeVars, layerVars, buildVars, nchg, kmodels, arr, rec>>

\* simulation.run()
SimulationRun ==
    /\ sim.built
    /\ sim.runs < MaxRuns
    /\ \E drawn \in SpikeTimesDraws(sim.network, Len(sim.sessions)) :
       \E r \in {RunSessions(sim.sessions, 1, sim.world, <<>>,
                               sim.network, drawn)} :
           sim' = [sim EXCEPT
                      !.world = r.world,
                      !.sessions = r.sessions,
                      !.runs = @ + 1,
                      !.log = r.log,
                      !.last = [op |-> "run", kind |-> r.kind]]
    /\ UNCHANGED <<treeVars, layerVars, buildVars, nchg, kmodels, arr, rec>>

SimulationNext == NewSimulation \/ SimulationRun

SpecSimulation == SimulationInit /\ [][SimulationNext]_vars

----------------------------------------------------------------------------
(* A layer, created and then given states *)

\* layer.set_state(variable, values, population)
SetState ==
    /\ \E values \in StateValues, population \in PopNames \cup {None} :
          LET r == set_state(layer, engine, StateVariable, values, population)
          IN  /\ engine' = r.engine
              /\ lres' = [NoLayerCall EXCEPT
                             !.op = "set_state", !.kind = r.kind,
                             !.population = population,
                             !.values = values]
    /\ UNCHANGED <<layer, history, treeVars, buildVars, auxVars>>

SetStateNext == LayerCreate \/ SetState

SpecSetState == LayerInit /\ [][SetStateNext]_vars

----------------------------------------------------------------------------
(* A network created in several attempts *)

RetryInit ==
    /\ \E counts \in RetryCounts :
          /\ NewRetryNetwork(counts).kind = "ok"
          /\ net = NewRetryNetwork(counts)
    /\ proj = NoProjection
    /\ conns = [held |-> {}, calls |-> <<>>]
    /\ pres = NoProjectionCall
    /\ input = NoInput
    /\ topo = NoTopology
    /\ TreeIdle
    /\ AuxIdle
    /\ LayerIdle

\* network.create(dry_run), during which the body of create() of the object
\* `fail`, if it runs, raises
NetworkCreateRetry ==
    /\ net.calls < MaxRetries
    /\ \E dry_run \in BOOLEAN,
          fail \in NetworkObjects(net.counts) \cup {None} :
          LET r == RetryCreateCall(net, dry_run, fail)
          IN  net' = [r.net EXCEPT
                         !.calls = @ + 1,
                         !.last = [kind |-> r.kind, dry_run |-> dry_run,
                                   fail |-> fail]]
    /\ UNCHANGED <<projVars, input, topo, treeVars, layerVars, auxVars>>

SpecRetry == RetryInit /\ [][NetworkCreateRetry]_vars

----------------------------------------------------------------------------
(* Properties of the parameter tree *)

Prefixes(p) == {SubSeq(p, 1, i) : i \in 0 .. Len(p)}

\* The node itself and its ancestors that define the key locally.
Definers(t, node, k) == {a \in Prefixes(node) : k \in DOMAIN t[a]}

NearestDefiner(t, node, k) ==
    CHOOSE a \in Definers(t, node, k) :
        \A b \in Definers(t, node, k) : Len(b) <= Len(a)

\* C1: a lookup tree[(c1, ..., cn, K)] of a key that the node c1..cn or one
\* of its ancestors defines returns the node's local value when the node
\* defines K, and else the value of the nearest ancestor that defines K
\* (the root itself is looked up with the plain key, tree[K]).
ScopedLookup ==
    LET node == Front(tres.key)
        k == Last(tres.key)
    IN  (/\ tres.op \in {"get", "getkey"}
         /\ tres.op = "get" => node # <<>>
         /\ node \in DOMAIN tree
         /\ Definers(tree, node, k) # {})
        => tres.out = Ok(tree[NearestDefiner(tree, node, k)][k])

\* A lookup from a grandchild that does not define the key, while its parent
\* and the root define it with different values.
ScopedLookupWitness ==
    /\ tres.op = "get"
    /\ Len(tres.key) = 3
    /\ Front(tres.key) \in DOMAIN tree
    /\ Last(tres.key) \notin DOMAIN tree[Front(tres.key)]
    /\ Last(tres.key) \in DOMAIN tree[Front(Front(tres.key))]
    /\ Last(tres.key) \in DOMAIN tree[<<>>]
    /\ tree[<<>>][Last(tres.key)] # tree[Front(Front(tres.key))][Last(tres.key)]
    /\ tres.out.kind = "ok"

\* C2: tree[(c1, ..., cn, K)] = v on an existing node c1..cn (n >= 1) stores
\* v in that node's local mapping and nowhere else, and the same lookup then
\* returns v.
SetByPathStores ==
    (/\ tres.op = "set"
     /\ Len(tres.key) >= 2
     /\ Front(tres.key) \in DOMAIN tres.before)
    => /\ tres.out.kind = "ok"
       /\ tree = SetLocal(tres.before, Front(tres.key), Last(tres.key), tres.value)
       /\ Params_getitem(tree, tres.key) = Ok(tres.value)

\* C3: in merge(T1, T2) the nodes are those of T1 and of T2; at a path of
\* both trees a key that both resolve has T1's value; a key that a node of
\* T2 defines is defined at that node of the merged tree.
MergePrecedence ==
    tres.op = "merge" =>
        LET t1 == tres.before
            t2 == tres.other
            m == tres.merged
        IN  /\ DOMAIN m = DOMAIN t1 \cup DOMAIN t2
            /\ \A p \in DOMAIN t1 \cap DOMAIN t2, k \in Keys :
                  (Definers(t1, p, k) # {} /\ Definers(t2, p, k) # {})
                  => /\ Definers(m, p, k) # {}
                     /\ m[NearestDefiner(m, p, k)][k] = t1[NearestDefiner(t1, p, k)][k]
            /\ \A p \in DOMAIN t2 : \A k \in DOMAIN t2[p] : k \in DOMAIN m[p]

\* A merge of two trees that define the key with different values at the
\* same child, the root defining it in T2 only.
MergePrecedenceWitness ==
    /\ tres.op = "merge"
    /\ \E p \in DOMAIN tres.before \cap DOMAIN tres.other : \E k \in Keys :
          /\ p # <<>>
          /\ k \in DOMAIN tres.before[p]
          /\ k \in DOMAIN tres.other[p]
          /\ tres.before[p][k] # tres.other[p][k]
          /\ k \in DOMAIN tres.other[<<>>]
          /\ k \notin DOMAIN tres.before[<<>>]
          /\ tres.merged[p][k] = tres.before[p][k]

\* C4: a lookup through a child name that does not exist fails with
\* ValueError, a lookup of a key that neither the node nor an ancestor
\* defines fails with KeyError, and a failed lookup leaves the tree as it was.
LookupFailures ==
    LET node == Front(tres.key)
        k == Last(tres.key)
    IN  /\ (tres.op = "get" /\ node \notin DOMAIN tres.before)
           => tres.out.kind = "ValueError"
        /\ (/\ tres.op \in {"get", "getkey"}
            /\ tres.op = "get" => node # <<>>
            /\ node \in DOMAIN tres.before
            /\ Definers(tres.before, node, k) = {})
           => tres.out.kind = "KeyError"
        /\ (tres.op \in {"get", "getkey"} /\ tres.out.kind # "ok")
           => tree = tres.before

\* A lookup from an existing grandchild of a key defined nowhere above it.
LookupFailuresWitness ==
    /\ tres.op = "get"
    /\ Len(tres.key) = 3
    /\ Front(tres.key) \in DOMAIN tree
    /\ Definers(tree, Front(tres.key), Last(tres.key)) = {}
    /\ tres.out.kind = "KeyError"

----------------------------------------------------------------------------
(* Properties of the layer *)

\* The set of GIDs that layer.gids(...) returns in the current state.
GidsOf(population, location, population_location) ==
    Range(LayerGidsCall(layer, engine, population, location,
                        population_location).gids)

CountOf(population, location) ==
    Len(LayerGidsCall(layer, engine, population, location, None).gids)

\* C5: after create(), every element the kernel holds for the layer is
\* recorded with a location, the GIDs of all grid locations together are the
\* GIDs of the unfiltered call, and no GID is returned for two locations.
LocationPartition ==
    layer.created =>
        /\ DOMAIN engine.nodes = DOMAIN layer.locations
        /\ GidsOf(None, None, None) = DOMAIN engine.nodes
        /\ UNION {GidsOf(None, loc, None) : loc \in GridLocations(layer.shape)}
           = GidsOf(None, None, None)
        /\ \A l1, l2 \in GridLocations(layer.shape) :
              l1 # l2 => GidsOf(None, l1, None) \cap GidsOf(None, l2, None) = {}

\* A created layer with more columns than rows and two populations.
LocationPartitionWitness ==
    /\ layer.created
    /\ lres.op = "create"
    /\ lres.kind = "ok"
    /\ layer.shape[1] < layer.shape[2]
    /\ Len(layer.populations) = 2
    /\ GidsOf(None, <<0, 1>>, None) # {}

\* The elements of the layer that pass the filters of the last gids call;
\* `exact` says whether the population is compared by equality or by
\* "is a substring of".
Selected(exact) ==
    {g \in DOMAIN engine.nodes :
        /\ \/ lres.population = None
           \/ IF exact THEN engine.nodes[g].model = lres.population
              ELSE IsSubstring(lres.population, engine.nodes[g].model)
        /\ lres.location = None \/ layer.locations[g] = lres.location
        /\ \/ lres.population_location = None
           \/ layer.population_locations[g] = lres.population_location}

NoDuplicates(s) == Len(s) = Cardinality(Range(s))

\* C6 as stated: gids returns exactly the elements that pass every given
\* filter, the population filter being equality of names, in the denest
\* layer and in the nets layer.
GidsFiltersExact ==
    (lres.op = "gids" /\ lres.kind = "ok") =>
        /\ Range(lres.gids) = Selected(TRUE)
        /\ NoDuplicates(lres.gids)

\* C6, amended: gids returns exactly the elements that pass every given
\* filter; the population filter selects the elements whose population name
\* equals the given name in the denest layer, and those whose population
\* name contains the given name in the nets layer; without a filter all
\* elements are returned.
GidsFilters ==
    (lres.op = "gids" /\ lres.kind = "ok") =>
        /\ Range(lres.gids) = Selected(layer.impl = "denest")
        /\ NoDuplicates(lres.gids)
        /\ (/\ lres.population = None
            /\ lres.location = None
            /\ lres.population_location = None)
           => Range(lres.gids) = DOMAIN engine.nodes

\* A nets query by population and location that returns an element of
\* another population, whose name contains the given one.
GidsFiltersWitness ==
    /\ lres.op = "gids"
    /\ lres.kind = "ok"
    /\ layer.impl = "nets"
    /\ lres.population # None
    /\ lres.location # None
    /\ \E g \in Range(lres.gids) : engine.nodes[g].model # lres.population
    /\ \E g \in DOMAIN engine.nodes :
          g \notin Range(lres.gids) /\ engine.nodes[g].model = lres.population

RECURSIVE SumCounts(_)
SumCounts(populations) ==
    IF populations = <<>> THEN 0
    ELSE populations[1][2] + SumCounts(Tail(populations))

\* C7: after create() of a denest layer of rows x cols with populations
\* {P: n_P}, gids() has rows*cols*sum(n_P) elements, gids(population=P) has
\* rows*cols*n_P, and every location holds n_P elements of population P.
ElementCounts ==
    (layer.created /\ layer.impl = "denest") =>
        LET cells == layer.shape[1] * layer.shape[2]
        IN  /\ CountOf(None, None) = cells * SumCounts(layer.populations)
            /\ \A i \in DOMAIN layer.populations :
                  /\ CountOf(layer.populations[i][1], None)
                     = cells * layer.populations[i][2]
                  /\ \A loc \in GridLocations(layer.shape) :
                        CountOf(layer.populations[i][1], loc)
                        = layer.populations[i][2]

\* The 2 x 2 layer with populations {A: 1, B: 2}: 12 elements, 4 of A.
ElementCountsWitness ==
    /\ layer.created
    /\ layer.impl = "denest"
    /\ layer.shape = <<2, 2>>
    /\ layer.populations = << <<E, 1>>, <<I, 2>> >>
    /\ Len(layer.gids) = 12
    /\ CountOf(E, None) = 4
    /\ CountOf(I, <<1, 0>>) = 2

\* The index of an element among the elements of its own population at its
\* grid location, in the order of the kernel.
UnitIndex(g) ==
    Cardinality({h \in DOMAIN engine.nodes :
                    /\ engine.nodes[h].model = engine.nodes[g].model
                    /\ engine.nodes[h].column = engine.nodes[g].column
                    /\ engine.nodes[h].row = engine.nodes[g].row
                    /\ h < g})

\* C8: after create() of a denest layer, the population location of an
\* element is (row, col, k), k being the index of the unit within its own
\* population at that location, so that 0 <= k < populations[P]; two
\* elements of one population never share a population location.
PopulationLocationInShape ==
    (layer.created /\ layer.impl = "denest") =>
        /\ \A g \in DOMAIN engine.nodes :
              LET at == layer.population_locations[g]
              IN  /\ <<at[1], at[2]>> = layer.locations[g]
                  /\ at[3] = UnitIndex(g)
                  /\ at[3] >= 0
                  /\ at[3] < population_shape(layer, engine.nodes[g].model)[3]
        /\ \A g, h \in DOMAIN engine.nodes :
              (g # h /\ engine.nodes[g].model = engine.nodes[h].model)
              => layer.population_locations[g] # layer.population_locations[h]

----------------------------------------------------------------------------
(* get_gids_subset *)

\* The strictly increasing maps from 1 .. k to 1 .. n: the ways of taking k
\* distinct indices of a list of length n in their order.
IncreasingMaps(k, n) ==
    {f \in [1 .. k -> 1 .. n] : \A i, j \in 1 .. k : i < j => f[i] < f[j]}

\* C9: get_gids_subset(lst, p) with 0 <= p <= 1 returns exactly
\* floor(len(lst) * p) elements, each taken from a distinct index of lst, in
\* the same relative order as in lst; for p = 1 it returns lst unchanged and
\* for p = 0 the empty list.
SubsetProportion ==
    lres.op = "subset" =>
        LET lst == lres.gids_list
            out == lres.gids
        IN  /\ Len(out) = (Len(lst) * lres.proportion) \div PropDen
            /\ \E f \in IncreasingMaps(Len(out), Len(lst)) :
                  \A j \in 1 .. Len(out) : out[j] = lst[f[j]]
            /\ lres.proportion = PropDen => out = lst
            /\ lres.proportion = 0 => out = <<>>

\* A proper, non-empty subset was taken of a list of different elements
\* whose length times the proportion is not a whole number.
SubsetProportionWitness ==
    /\ lres.op = "subset"
    /\ lres.proportion \in 1 .. PropDen - 1
    /\ (Len(lres.gids_list) * lres.proportion) % PropDen # 0
    /\ Len(lres.gids) >= 1
    /\ Len(lres.gids) < Len(lres.gids_list)
    /\ \E i, j \in DOMAIN lres.gids_list : lres.gids_list[i] # lres.gids_list[j]

----------------------------------------------------------------------------
(* change_unit_states *)

\* The last call asked a change of the layer.
LastIsChange ==
    /\ lres.op = "change"
    /\ IsChange(layer, lres.changes_dict, lres.population, lres.proportion,
                lres.change_type)

\* The step is a call that asks a change with a proportion below 1 when
\* such a change was asked before.
SecondProbStep ==
    /\ history.prob >= 1
    /\ lres'.op = "change"
    /\ IsChange(layer, lres'.changes_dict, lres'.population,
                lres'.proportion, lres'.change_type)
    /\ lres'.proportion < PropDen

\* C10: for non-empty change dictionaries, of two change_unit_states calls
\* with proportion < 1 on the same layer the second raises and applies
\* nothing to the kernel; a call with proportion = 1 on a layer that was
\* never asked a probabilistic change does not raise, however many came
\* before.
ProbGuardOnce ==
    /\ [](LastIsChange /\ lres.proportion < PropDen /\ history.prob = 2
            => lres.kind = "Exception" /\ lres.writes = 0)
    /\ [](LastIsChange /\ lres.proportion = PropDen /\ history.prob = 0
            => lres.kind = "ok")
    /\ [][SecondProbStep
            => lres'.kind = "Exception" /\ engine' = engine /\ layer' = layer]_vars

\* A second change with a proportion below 1 was refused after the first
\* one, the only change made, reached some elements and not others.
ProbGuardOnceWitness ==
    /\ LastIsChange
    /\ lres.proportion < PropDen
    /\ history = [prob |-> 2, full |-> 0]
    /\ lres.kind = "Exception"
    /\ \E g, h \in DOMAIN engine.status :
          engine.status[g] = 1 /\ engine.status[h] = 2

\* C11: the layer's flag is set by the first probabilistic change only: after
\* any sequence of changes that all used proportion = 1 the flag is still
\* unset, and the first change with a proportion below 1 is applied without
\* raising.
FlagSetByProbabilisticOnly ==
    /\ LastIsChange /\ history.prob = 0 => ~layer.prob_changed
    /\ LastIsChange /\ lres.proportion < PropDen /\ history.prob = 1
          => lres.kind = "ok"

\* The arguments of the last call that denest change_unit_states refuses.
BadChangeArguments(call) ==
    \/ call.change_type \notin ChangeTypes
    \/ call.proportion < 0
    \/ call.proportion > PropDen

\* C12: denest Layer.change_unit_states raises ParameterError when
\* change_type is not 'constant' or 'multiplicative' or when proportion is
\* outside [0, 1]; then no kernel status is read or written and the layer's
\* flag is unchanged.
ChangeParameterError ==
    /\ [](lres.op = "change" /\ layer.impl = "denest" /\ BadChangeArguments(lres)
            => /\ lres.kind = "ParameterError"
               /\ lres.reads = 0
               /\ lres.writes = 0
               /\ layer.prob_changed = lres.prob_before)
    /\ [][lres'.op = "change" /\ layer.impl = "denest" /\ BadChangeArguments(lres')
            => engine' = engine /\ layer' = layer]_vars

\* A created denest layer refused a proportion above 1 given with a known
\* change_type, a population and a non-empty changes_dict.
ChangeParameterErrorWitness ==
    /\ lres.op = "change"
    /\ layer.impl = "denest"
    /\ layer.created
    /\ lres.proportion > PropDen
    /\ lres.change_type \in ChangeTypes
    /\ lres.population = E
    /\ DOMAIN lres.changes_dict # {}
    /\ lres.kind = "ParameterError"

----------------------------------------------------------------------------
(* Projections *)

\* C13: building a projection whose target layer is an InputLayer raises
\* ValueError; building one whose source layer is an InputLayer with any
\* source population other than its parrot population, None included,
\* raises ValueError; with the parrot population as the source population
\* (and a target that is not an InputLayer) it succeeds; no connection call
\* is made on the kernel when validation fails.
ProjectionValidation ==
    LET source_kind == ProjLayers[pres.source].kind
        target_kind == ProjLayers[pres.target].kind
        refused == pres.kind = "ValueError" /\ ~proj.built
    IN  /\ (pres.op = "build" /\ target_kind = "InputLayer") => refused
        /\ (/\ pres.op = "build"
            /\ source_kind = "InputLayer"
            /\ pres.source_population # ParrotModel) => refused
        /\ (/\ pres.op = "build"
            /\ source_kind = "InputLayer"
            /\ pres.source_population = ParrotModel
            /\ target_kind # "InputLayer") => (pres.kind = "ok" /\ proj.built)
        /\ ~proj.built => conns.calls = <<>>

\* A projection from the input layer with no source population was refused.
ProjectionValidationWitness ==
    /\ pres.op = "build"
    /\ pres.source = "in"
    /\ pres.source_population = None
    /\ pres.target = "a"
    /\ pres.kind = "ValueError"
    /\ ~proj.built


\* The elements of a layer that a population argument names, read from the
\* layers themselves.
PopulationMembers(name, population) ==
    {g \in 1 .. 6 :
        \E p \in DOMAIN ProjLayers[name].gids :
            /\ population \in {None, p}
            /\ \E i \in DOMAIN ProjLayers[name].gids[p] :
                  ProjLayers[name].gids[p][i] = g}

\* The connections held by the kernel that carry the query label of the
\* projection and run from its source population to its target population.
LabelledMatches ==
    {c \in conns.held :
        /\ c.synapse_label = proj.model.query_synapse_label
        /\ c.source \in PopulationMembers(proj.source, proj.source_population)
        /\ c.target \in PopulationMembers(proj.target, proj.target_population)}

\* C17: create() of a multisynapse projection raises ParameterError and
\* makes no connect call when no connection with the query label runs from
\* the declared source population to the declared target population;
\* otherwise it makes one one-to-one connect call over exactly the
\* (source, target) pairs of the matching connections.
MultiSynapseReplication ==
    (pres.op = "create" /\ proj.model.type = "multisynapse") =>
        /\ (LabelledMatches = {}) =>
              (/\ pres.kind = "ParameterError"
               /\ conns.calls = <<>>
               /\ ~proj.created)
        /\ (LabelledMatches # {}) =>
              (/\ pres.kind \in {"ok", "skipped"}
               /\ proj.created
               /\ Len(conns.calls) = 1
               /\ conns.calls[1].call = "Connect"
               /\ conns.calls[1].pairs
                     = {<<c.source, c.target>> : c \in LabelledMatches})

\* A multisynapse projection replicated one connection and left out another
\* that carries the label and starts in the source population but ends
\* outside the target population.
MultiSynapseReplicationWitness ==
    /\ pres.op = "create"
    /\ pres.kind = "ok"
    /\ proj.model.type = "multisynapse"
    /\ Len(conns.calls) = 1
    /\ Cardinality(conns.calls[1].pairs) = 1
    /\ \E c \in conns.held :
          /\ c.synapse_label = proj.model.query_synapse_label
          /\ c.source \in PopulationMembers(proj.source, proj.source_population)
          /\ c \notin LabelledMatches
----------------------------------------------------------------------------
(* Network *)

\* The place of a sort of objects in the order of creation.
StageRank(stage) == CHOOSE i \in DOMAIN StageNames : StageNames[i] = stage

\* C14: Network.create() issues creations in stage order: every neuron
\* model before any synapse model, every synapse model before any recorder
\* model, every recorder model before any layer, every layer before any
\* connection and every connection before any population; with dry_run set
\* no population is created.
CreationOrder ==
    /\ \A i, j \in DOMAIN net.log :
          i < j => StageRank(net.log[i].stage) <= StageRank(net.log[j].stage)
    /\ net.calls >= 1 =>
          \A s \in Stages :
              \A k \in 1 .. net.counts[s] :
                  (s # "populations" \/ ~net.dry_run)
                      <=> (\E i \in DOMAIN net.log :
                              net.log[i] = [stage |-> s, index |-> k])

\* A network with an object of every sort was created.
CreationOrderWitness ==
    /\ net.calls >= 1
    /\ ~net.dry_run
    /\ \A s \in Stages : net.counts[s] >= 1
    /\ Len(net.log) >= 6

----------------------------------------------------------------------------
(* InputLayer and the creation guard *)

\* C15: once create() has returned on an object, every later create() call
\* on it is a no-op that asks nothing of the kernel: here, an input layer
\* whose create() returned has made one connection call, however many
\* create() calls followed.
CreateIdempotent ==
    input.creates >= 1 => Len(conns.calls) = 1

\* C16: whenever create() raises, the created flag of the object is false
\* afterwards and its created-only accessors still raise: here, for an
\* input layer whose stimulator type is refused during create().
GuardResetOnFailure ==
    lres.op = "create" /\ lres.kind \notin {"ok", "skipped"}
        => /\ ~layer.created
           /\ LayerGidsCall(layer, engine, None, None, None).kind
                 = "NotCreatedError"

\* The elements of a population of the input layer.
InputGids(population) ==
    Range(LayerGidsCall(layer, engine, population, None, None).gids)

\* C20: an InputLayer is accepted only with exactly one declared population
\* of exactly one unit per location, otherwise construction fails; after
\* create() its population names are exactly the stimulator and
\* parrot_neuron, each with rows * cols elements, and every stimulator
\* element is connected to exactly one parrot element, the one at the same
\* grid location.
InputLayerComposition ==
    /\ lres.op = "input_init" =>
          /\ lres.kind = "ok"
                <=> (Len(lres.populations) = 1 /\ lres.populations[1][2] = 1)
          /\ input.built <=> lres.kind = "ok"
    /\ (lres.op = "create" /\ lres.kind = "ok" /\ input.attempts = 1) =>
          LET stims == InputGids(input.stimulator_model)
              parrots == InputGids(ParrotModel)
              pairs == conns.calls[1].pairs
          IN  /\ population_names(layer) = {input.stimulator_model, ParrotModel}
              /\ Cardinality(stims) = layer.shape[1] * layer.shape[2]
              /\ Cardinality(parrots) = layer.shape[1] * layer.shape[2]
              /\ Len(conns.calls) = 1
              /\ \A pair \in pairs : pair[1] \in stims /\ pair[2] \in parrots
              /\ \A s \in stims :
                    \E t \in parrots :
                        /\ layer.locations[t] = layer.locations[s]
                        /\ {pair \in pairs : pair[1] = s} = {<<s, t>>}

\* A denest input layer of more than one location was created.
InputLayerCompositionWitness ==
    /\ lres.op = "create"
    /\ lres.kind = "ok"
    /\ input.attempts = 1
    /\ layer.impl = "denest"
    /\ layer.shape[1] * layer.shape[2] > 1
    /\ Cardinality(conns.calls[1].pairs) = layer.shape[1] * layer.shape[2]

----------------------------------------------------------------------------
(* Connections *)

\* The connection_type that a connection was built with.
ConnectionTypeOf(c) ==
    IF "connection_type" \in DOMAIN c.given THEN c.given.connection_type
    ELSE topo.declared.connection_type

\* Whether a layer scales kernels and masks: it does unless told not to.
ScalesKernelsMasks(l) ==
    "scale_kernels_masks" \notin DOMAIN l \/ l.scale_kernels_masks

\* One less than the longer side of the grid of a layer.
GridSize(l) == (IF l.nrows >= l.ncols THEN l.nrows ELSE l.ncols) - 1

\* Whether the fraction f is the rf_scale_factor of the layer (1 when not
\* given) times its extent divided by its grid size.
IsExtentConversion(l, f) ==
    LET rf == IF "rf_scale_factor" \in DOMAIN l THEN l.rf_scale_factor
              ELSE <<1, 1>>
    IN  /\ GridSize(l) # 0
        /\ f[1] * GridSize(l) * rf[2] * l.visSize[2]
              = f[2] * rf[1] * l.visSize[1]

\* C18: the scale factor of a connection is the source layer's conversion
\* to extent units of its rf_scale_factor when the connection is convergent
\* and the source layer scales kernels and masks, the target layer's
\* conversion when it is divergent and the target layer scales, and 1.0 in
\* every other case; a convergent connection from a scaling source never
\* takes the target's conversion.  Building fails only where the conversion
\* that applies divides by zero.
ScaleFactorSelection ==
    /\ \A k \in DOMAIN topo.connections :
          LET c == topo.connections[k]
              s == ConnLayerParams[c.source]
              t == ConnLayerParams[c.target]
              bySource == ConnectionTypeOf(c) = "convergent"
                            /\ ScalesKernelsMasks(s)
              byTarget == ConnectionTypeOf(c) = "divergent"
                            /\ ScalesKernelsMasks(t)
          IN  /\ bySource => IsExtentConversion(s, c.scale_factor)
              /\ byTarget => IsExtentConversion(t, c.scale_factor)
              /\ (~bySource /\ ~byTarget) => c.scale_factor = <<1, 1>>
    /\ (topo.last.kind # "none") =>
          LET s == ConnLayerParams[topo.last.source]
              t == ConnLayerParams[topo.last.target]
              type == IF "connection_type" \in DOMAIN topo.last.own
                      THEN topo.last.own.connection_type
                      ELSE topo.declared.connection_type
              failing == \/ (/\ type = "convergent"
                             /\ ScalesKernelsMasks(s)
                             /\ GridSize(s) = 0)
                         \/ (/\ type = "divergent"
                             /\ ScalesKernelsMasks(t)
                             /\ GridSize(t) = 0)
          IN  /\ topo.last.kind \in {"ok", "ZeroDivisionError"}
              /\ (topo.last.kind = "ZeroDivisionError") <=> failing

\* A convergent connection between two scaling layers whose conversions
\* differ took the source's, and another connection from a layer that does
\* not scale to one that does kept the factor 1.0.
ScaleFactorSelectionWitness ==
    /\ Len(topo.connections) = 2
    /\ LET c == topo.connections[1]
           s == ConnLayerParams[c.source]
           t == ConnLayerParams[c.target]
       IN  /\ ConnectionTypeOf(c) = "convergent"
           /\ ScalesKernelsMasks(s)
           /\ ScalesKernelsMasks(t)
           /\ IsExtentConversion(s, c.scale_factor)
           /\ ~IsExtentConversion(t, c.scale_factor)
    /\ LET c == topo.connections[2]
       IN  /\ ConnectionTypeOf(c) = "convergent"
           /\ ~ScalesKernelsMasks(ConnLayerParams[c.source])
           /\ ScalesKernelsMasks(ConnLayerParams[c.target])
           /\ c.scale_factor = <<1, 1>>

\* Whether the fraction r is the product of the fractions a and b.
IsProduct(r, a, b) == r[1] * a[2] * b[2] = r[2] * a[1] * b[1]

\* The kernel, mask or weights that a connection was given: its own or,
\* failing that, those of the connection model as configured.
GivenParam(c, key) ==
    IF key \in DOMAIN c.given THEN c.given[key] ELSE topo.declared[key]

\* C19: in the parameters of a built connection a numeric kernel is the one
\* given, the sigma of a gaussian kernel, the radius of a circular mask and
\* every component of a rectangular mask are those given times the scale
\* factor of the connection, and the weights are those given times the
\* weight_gain of the source layer (1.0 when it has none), whatever the
\* scale factor.
ParameterRewriting ==
    \A k \in DOMAIN topo.connections :
        LET c == topo.connections[k]
            f == c.scale_factor
            s == ConnLayerParams[c.source]
            gain == IF "weight_gain" \in DOMAIN s THEN s.weight_gain
                    ELSE <<1, 1>>
            kernel0 == GivenParam(c, "kernel")
            kernel1 == ConnectionParam(topo, c, "kernel")
            mask0 == GivenParam(c, "mask")
            mask1 == ConnectionParam(topo, c, "mask")
        IN  /\ (kernel0.kind = "number") => (kernel1 = kernel0)
            /\ (kernel0.kind = "gaussian") =>
                  (/\ kernel1.kind = "gaussian"
                   /\ IsProduct(kernel1.sigma, kernel0.sigma, f))
            /\ ("circular" \in DOMAIN mask0) =>
                  IsProduct(mask1.circular.radius, mask0.circular.radius, f)
            /\ ("rectangular" \in DOMAIN mask0) =>
                  \A key \in DOMAIN mask0.rectangular :
                      \A i \in DOMAIN mask0.rectangular[key] :
                          IsProduct(mask1.rectangular[key][i],
                                    mask0.rectangular[key][i], f)
            /\ IsProduct(c.weights, GivenParam(c, "weights"), gain)

\* C26: building connections leaves the kernel, the mask and the weights
\* of the connection model they share as configured, and the kernel spread
\* and the mask of every connection that takes them from the model are the
\* configured ones times the scale factor of that connection alone.
ConnectionModelUntouched ==
    /\ \A key \in {"kernel", "mask", "weights"} :
          topo.model[key] = topo.declared[key]
    /\ \A k \in DOMAIN topo.connections :
          LET c == topo.connections[k]
              f == c.scale_factor
              kernel0 == topo.declared.kernel
              kernel1 == ConnectionParam(topo, c, "kernel")
              mask0 == topo.declared.mask
              mask1 == ConnectionParam(topo, c, "mask")
          IN  /\ ("kernel" \notin DOMAIN c.given
                    /\ kernel0.kind = "gaussian") =>
                    (/\ kernel1.kind = "gaussian"
                     /\ IsProduct(kernel1.sigma, kernel0.sigma, f))
              /\ ("mask" \notin DOMAIN c.given
                    /\ "circular" \in DOMAIN mask0) =>
                    IsProduct(mask1.circular.radius,
                              mask0.circular.radius, f)
              /\ ("mask" \notin DOMAIN c.given
                    /\ "rectangular" \in DOMAIN mask0) =>
                    \A key \in DOMAIN mask0.rectangular :
                        \A i \in DOMAIN mask0.rectangular[key] :
                            IsProduct(mask1.rectangular[key][i],
                                      mask0.rectangular[key][i], f)

----------------------------------------------------------------------------
(* Changes asked of the network *)

\* C21 as stated: over all the calls made on a network at most one
\* probabilistic directive is applied, that is, carried out over the
\* layers it names; a probabilistic directive that comes after one that
\* was applied, in the same call or a later one, raises.
AtMostOneProbabilistic ==
    nchg.probabilistic <= 1

\* C21, amended: the flag is set exactly when a call has returned;
\* probabilistic directives are applied only by calls made before any call
\* has returned, and from then on a call that is given a probabilistic
\* directive raises and applies none.
OneShotAfterFirstCall ==
    /\ nchg.changed <=> (nchg.returned >= 1)
    /\ (ProbabilisticIn(nchg.last.done) # {}) =>
          (~nchg.last.changed_before
           /\ nchg.returned <= (IF nchg.last.kind = "ok" THEN 1 ELSE 0))
    /\ (/\ nchg.last.changed_before
        /\ ProbabilisticIn(nchg.last.given) # {}) =>
          (nchg.last.kind # "ok" /\ ProbabilisticIn(nchg.last.done) = {})

\* A first call applied a probabilistic directive and returned; the second
\* call was given a probabilistic directive and raised the error of the
\* guard.
OneShotAfterFirstCallWitness ==
    /\ nchg.calls = 2
    /\ nchg.returned = 1
    /\ nchg.last.changed_before
    /\ nchg.last.kind = "Exception"
    /\ nchg.probabilistic >= 1
    /\ ProbabilisticIn(nchg.last.given) # {}

\* The list l in the order given by the permutation p of its positions.
Permuted(l, p) == [i \in DOMAIN l |-> l[p[i]]]

\* C22: whatever the order in which the directives of a list are given,
\* the call processes them in the same order: every permutation of the
\* list given to the last call is sorted into the order that the call
\* followed.
CanonicalOrder ==
    nchg.last.kind # "none" =>
        \A p \in Permutations(DOMAIN nchg.last.given) :
            sorted_unit_changes(Permuted(nchg.last.given, p)).list
                = nchg.last.order

----------------------------------------------------------------------------
(* Models *)

\* Whether the defaults d are the defaults b with the parameters p set.
IsUpdateOf(d, b, p) ==
    /\ DOMAIN d = DOMAIN b \cup DOMAIN p
    /\ \A k \in DOMAIN p : d[k] = p[k]
    /\ \A k \in DOMAIN b \ DOMAIN p : d[k] = b[k]

\* C23: create() of a model whose name is the name of its base model sets
\* the model's parameters in the defaults of that model of the kernel and
\* registers no model; otherwise it registers exactly one model, under the
\* model's name, as a copy of the base model with the model's parameters.
\* It succeeds when the base model exists and, for a copy, the name is
\* free; it changes nothing when it fails.
ModelCreateEffect ==
    (kmodels.last.op = "create" /\ kmodels.last.kind # "skipped") =>
        LET m == kmodels.object
            before == kmodels.last.before
            after == kmodels.kernel
            ok == kmodels.last.kind = "ok"
        IN  /\ ok <=> (/\ m.nest_model \in DOMAIN before
                       /\ (m.name = m.nest_model \/ m.name \notin DOMAIN before))
            /\ ~ok => after = before
            /\ (ok /\ m.name = m.nest_model) =>
                  (/\ DOMAIN after = DOMAIN before
                   /\ IsUpdateOf(after[m.name], before[m.name], m.nest_params)
                   /\ \A n \in DOMAIN before \ {m.name} : after[n] = before[n]
                   /\ kmodels.calls[Len(kmodels.calls)] = "SetDefaults")
            /\ (ok /\ m.name # m.nest_model) =>
                  (/\ DOMAIN after = DOMAIN before \cup {m.name}
                   /\ m.name \notin DOMAIN before
                   /\ IsUpdateOf(after[m.name], before[m.nest_model],
                                 m.nest_params)
                   /\ \A n \in DOMAIN before : after[n] = before[n]
                   /\ kmodels.calls[Len(kmodels.calls)] = "CopyModel")

\* A model named as its base model had its defaults set, and a second
\* model was then registered as a copy of that base model.
ModelCreateEffectWitness ==
    /\ kmodels.last.op = "create"
    /\ kmodels.last.kind = "ok"
    /\ kmodels.calls = <<"SetDefaults", "CopyModel">>
    /\ kmodels.object.name = "my_iaf"
    /\ kmodels.object.nest_model = "iaf"
    /\ kmodels.kernel["iaf"].V_m = 2
    /\ kmodels.kernel["my_iaf"].V_m = 2

\* C24: building a synapse model with receptor_type and without
\* target_neuron fails and registers nothing in the kernel; with both, the
\* parameters kept for the kernel hold, as receptor_type, the index found
\* under that name in the receptor table of the target neuron, and do not
\* hold target_neuron.
ReceptorIndirection ==
    (kmodels.last.op = "SynapseModel") =>
        LET params == kmodels.last.params
            m == kmodels.object
            declared == "receptor_type" \in DOMAIN params
            target == "target_neuron" \in DOMAIN params
        IN  /\ kmodels.kernel = kmodels.last.before
            /\ (declared /\ ~target) =>
                  (kmodels.last.kind = "ValueError" /\ m.class = "none")
            /\ (declared /\ target /\ kmodels.last.kind = "ok") =>
                  (/\ "target_neuron" \notin DOMAIN m.nest_params
                   /\ m.nest_params.receptor_type
                         = KernelModels[params.target_neuron]
                              .receptor_types[params.receptor_type]
                   /\ m.nest_params.receptor_type \in Int)
            /\ (declared /\ target) =>
                  (kmodels.last.kind = "ok"
                      <=> (/\ params.target_neuron \in DOMAIN kmodels.kernel
                           /\ "receptor_types" \in
                                 DOMAIN kmodels.kernel[params.target_neuron]
                           /\ params.receptor_type \in
                                 DOMAIN kmodels.kernel[params.target_neuron]
                                           .receptor_types))

\* A synapse model was built with a receptor name and its target neuron,
\* and keeps the index in place of the name.
ReceptorIndirectionWitness ==
    /\ kmodels.last.op = "SynapseModel"
    /\ kmodels.last.kind = "ok"
    /\ kmodels.object.class = "SynapseModel"
    /\ DOMAIN kmodels.last.params
          = {"nest_model", "receptor_type", "target_neuron"}
    /\ kmodels.last.params.receptor_type = "GABA_A"
    /\ kmodels.object.params.receptor_type = "GABA_A"
    /\ kmodels.object.nest_params.receptor_type = 3
    /\ "target_neuron" \notin DOMAIN kmodels.object.nest_params

----------------------------------------------------------------------------
(* Properties of Session.load_input_array *)

\* C25: an array with fewer rows or fewer columns than the input layer is
\* rejected with an error; any other array is cropped to exactly the rows
\* and columns of the layer, each kept entry being the entry of the loaded
\* array at the same frame, row and column, and every frame is kept.
InputExtentCheck ==
    arr.op = "load_input_array" =>
        LET shape == ArrayShape(arr.raw)
            rows  == arr.layer_shape[1]
            cols  == arr.layer_shape[2]
        IN  IF shape[2] < rows \/ shape[3] < cols
            THEN arr.kind = "ValueError"
            ELSE /\ arr.kind = "ok"
                 /\ ArrayShape(arr.cropped) = <<shape[1], rows, cols>>
                 /\ \A t \in 1 .. shape[1], r \in 1 .. rows, c \in 1 .. cols :
                       arr.cropped[t][r][c] = arr.raw[t][r][c]

----------------------------------------------------------------------------
(* Properties of the synapse models of a projection *)

\* C27: base_synapse_model of a projection is always the synapse model that
\* the projection's model specifies, also after a weight recorder was
\* attached; attaching a weight recorder changes only nest_synapse_model
\* and the synapse-model entry of nest_params, both to the copy named
\* '<base>-<projection string>'.
BaseSynapseModelKept ==
    rec.projection.built =>
        LET p    == rec.projection
            key  == p.synapse_model_key
            spec == rec.model.nest_params[key]
            b    == rec.last.before
        IN  /\ base_synapse_model(p) = spec
            /\ (rec.last.op = "connect_projection_recorder"
                  /\ rec.last.kind = "ok") =>
                  /\ nest_synapse_model(p) = spec \o ProjectionStr(p)
                  /\ p.nest_params[key] = spec \o ProjectionStr(p)
                  /\ p = [b EXCEPT !.nest = p.nest,
                                   !.nest_params[key] = p.nest_params[key]]

----------------------------------------------------------------------------
(* Properties of the session timeline *)

\* C28: the sessions of a simulation are those declared, in the declared
\* order; the first starts at 0, each ends at its start plus its
\* simulation time, which is a whole number that is not negative, and each
\* starts where the one before it ends; a run takes the sessions in that
\* order, and a session that ran saw the kernel at its start before and at
\* its end after; a simulation with a negative simulation_time is refused
\* with ParameterError.
SessionTimeline ==
    /\ sim.built =>
          /\ Len(sim.sessions) = Len(sim.sessions_order)
          /\ \A i \in 1 .. Len(sim.sessions) :
                LET s == sim.sessions[i]
                IN  /\ s.index = i
                    /\ s.simulation_time \in Nat
                    /\ s.end = s.start + s.simulation_time
                    /\ s.start = IF i = 1 THEN 0 ELSE sim.sessions[i - 1].end
          /\ \A j \in 1 .. Len(sim.log) :
                /\ sim.log[j].index = j
                /\ sim.log[j].kind = "ok" =>
                      /\ sim.log[j].before = sim.sessions[j].start
                      /\ sim.log[j].after = sim.sessions[j].end
          /\ (sim.last.op = "run" /\ sim.last.kind = "ok") =>
                Len(sim.log) = Len(sim.sessions)
    /\ (sim.last.op = "Simulation"
          /\ \E i \in 1 .. Len(sim.sessions_order) :
                sim.sessions_order[i].simulation_time < 0) =>
          (sim.last.kind = "ParameterError" /\ ~sim.built)

----------------------------------------------------------------------------
(* Properties of Layer.set_state *)

\* A call of set_state on a created layer for all units or for one of the
\* populations of the layer.
IsSetState ==
    /\ lres.op = "set_state"
    /\ layer.created
    /\ lres.population \in population_names(layer) \cup {None}

\* The units of the selected population.
SelectedUnits ==
    {g \in Range(layer.gids) :
        lres.population = None \/ EngineModel(engine, g) = lres.population}

\* C29 (array part): set_state with a two-dimensional array of the shape of
\* the layer gives the units of the selected population at each location
\* the entry of the array at that location.
SetStatePerLocation ==
    (IsSetState /\ lres.values.array /\ lres.values.shape = layer.shape) =>
        /\ lres.kind = "ok"
        /\ \A g \in SelectedUnits :
              engine.status[g] = lres.values.at[layer.locations[g]]

\* C29: set_state with a single value that is not an array sets that value
\* on every unit of the selected population at every location; with a
\* two-dimensional array of the shape of the layer, the units at each
\* location receive the entry of the array at that location.
SetStateValues ==
    /\ (IsSetState /\ ~lres.values.array) =>
          /\ lres.kind = "ok"
          /\ \A g \in SelectedUnits : engine.status[g] = lres.values.value
    /\ SetStatePerLocation

----------------------------------------------------------------------------
(* Properties of creation in several attempts *)

\* C30: after a Network.create() that failed at some object the network is
\* not created, so that create() runs again, and the object that failed is
\* not created either; over all the calls, once the create() of an object
\* has completed its body never runs again, so that every object is created
\* at most once.
RetryAfterFailure ==
    /\ (net.last.kind = "Exception") =>
          /\ ~net.created
          /\ net.last.fail \notin net.objects_created
          /\ net.log[Len(net.log)] =
                [stage |-> net.last.fail[1], index |-> net.last.fail[2],
                 completed |-> FALSE]
    /\ (net.last.kind = "ok") => net.created
    /\ \A i, j \in DOMAIN net.log :
          (i < j /\ net.log[i].completed) =>
              ~(/\ net.log[j].stage = net.log[i].stage
                /\ net.log[j].index = net.log[i].index)
    /\ \A o \in net.objects_created :
          \E i \in DOMAIN net.log :
              net.log[i] = [stage |-> o[1], index |-> o[2],
                            completed |-> TRUE]

\* A first create() failed at a connection after the layers were created,
\* and a second create() completed: the connection that failed was retried
\* and the layers were not created again.
RetryAfterFailureWitness ==
    /\ net.calls = 2
    /\ net.created
    /\ net.last.kind = "ok"
    /\ \E i, j \in DOMAIN net.log :
          /\ i < j
          /\ net.log[i] = [stage |-> "connections", index |-> 1,
                           completed |-> FALSE]
          /\ net.log[j] = [stage |-> "connections", index |-> 1,
                           completed |-> TRUE]
    /\ Cardinality({i \in DOMAIN net.log :
                       net.log[i].stage = "layers"}) = net.counts["layers"]

====
